---- MODULE Spec2Model ----
(***************************************************************************)
(* Version-constraint engine of Dai: pkg/semver (Parse, ParseConstraint,   *)
(* Compare, String, IsCompatible) and the upgrade selector                 *)
(* RegistryClient.FindBestUpgrade of pkg/npm.                              *)
(*                                                                         *)
(* Go strings are modelled as sequences of one-character strings, so that  *)
(* parsing, formatting and byte-wise comparison are computed, not assumed. *)
(***************************************************************************)
EXTENDS Integers, Sequences, FiniteSets, TLC

VARIABLES
    pc,                 \* position of the operation under way
    v1, v2, cmpResult,  \* Compare: arguments and return value
    version, constraint,            \* IsCompatible: argument strings
    v, constraintType, constraintVersion,   \* IsCompatible: locals
    compatible, compatErr,          \* IsCompatible: return values
    currentVersion,     \* FindBestUpgrade: argument string
    infoVersions,       \* keys of info.Versions served by the registry
    infoErr,            \* whether GetPackageInfo fails
    fbuType, fbuVersion,            \* FindBestUpgrade: parsed constraint
    remaining,          \* keys the range loop has not visited yet
    bestVersion, bestVersionStr,    \* FindBestUpgrade: loop locals
    ret, retErr,        \* FindBestUpgrade: return values
    cpeVersion, cpeMatch,           \* isVersionInVulnerableRange: arguments
    inRange,                        \* isVersionInVulnerableRange: return value
    vulnVersion, vulnerableRanges,  \* isVersionVulnerable: arguments
    vulnerable,                     \* isVersionVulnerable: return value
    strVersion,         \* Version.String: receiver
    input,              \* Parse, ParseConstraint: argument string
    parseOut,           \* Parse, ParseConstraint: return values
    fvClient,           \* FindVulnerabilities: which client runs
    fvEcosystem, fvVersion,         \* FindVulnerabilities: arguments
    fvFetchErr,         \* whether the advisory request fails
    fvResponse,         \* advisories the service answers with
    fvParsed,           \* FindVulnerabilities: parsedVersion
    fvIndex,            \* advisories the loop has gone through
    fvResult, fvErr,    \* FindVulnerabilities: return values
    rmPackages,         \* ReportMultiple: argument map, package to version
    rmScanFails,        \* packages for which the scanner returns an error
    rmRemaining,        \* packages the range loop has not visited yet
    rmReports, rmErrors,            \* ReportMultiple: locals
    rmErr,              \* ReportMultiple: whether the error returned is non-nil
    upSimulate,         \* upgradePackages: simulateFlag
    upNewVersionStr,    \* upgradePackages: newVersionStr of the package
    upgrades,           \* upgradePackages: the upgrades map
    udBefore,           \* both maps as they were before UpdateDependency
    udDeps, udDevDeps,  \* PackageJSON: Dependencies and DevDependencies
    udName, udVersion,  \* UpdateDependency: arguments
    udResult,           \* UpdateDependency: return value
    sbBefore,           \* the report's vulnerabilities before SortBySeverity
    sbVulns,            \* VulnerabilityReport.Vulnerabilities
    wkCall,             \* per worker: the function called and its arguments
    wkPc,               \* per worker: position within its call
    wkLocal,            \* per worker: the locals of its call
    wkResult,           \* per worker: the value its call returned
    nvParts,            \* NormalizeVersion: how the argument was written
    nvInput,            \* NormalizeVersion: the argument
    nvOnce, nvTwice     \* NormalizeVersion applied once, and again

cmpVars == <<v1, v2, cmpResult>>
compatVars == <<version, constraint, v, constraintType, constraintVersion,
                compatible, compatErr>>
fbuVars == <<currentVersion, infoVersions, infoErr, fbuType, fbuVersion,
             remaining, bestVersion, bestVersionStr, ret, retErr>>
rangeVars == <<cpeVersion, cpeMatch, inRange>>
vulnVars == <<vulnVersion, vulnerableRanges, vulnerable>>
parseVars == <<strVersion, input, parseOut>>
fvVars == <<fvClient, fvEcosystem, fvVersion, fvFetchErr, fvResponse,
            fvParsed, fvIndex, fvResult, fvErr>>
secVars == <<rangeVars, vulnVars, parseVars, fvVars>>
rmVars == <<rmPackages, rmScanFails, rmRemaining, rmReports, rmErrors, rmErr>>
upVars == <<upSimulate, upNewVersionStr, upgrades>>
udVars == <<udBefore, udDeps, udDevDeps, udName, udVersion, udResult>>
sbVars == <<sbBefore, sbVulns>>
wkVars == <<wkCall, wkPc, wkLocal, wkResult>>
nvVars == <<nvParts, nvInput, nvOnce, nvTwice>>
appVars == <<rmVars, upVars, udVars, sbVars, wkVars, nvVars>>
vars == <<pc, cmpVars, compatVars, fbuVars, secVars, appVars>>

----------------------------------------------------------------------------
(* Bounds *)

MaxNum == 2         \* major, minor and patch range over 0..MaxNum
MaxVersions == 3    \* most keys in a registry's version map

----------------------------------------------------------------------------
(* Characters and strings *)

Digits == {"0", "1", "2", "3", "4", "5", "6", "7", "8", "9"}
Letters == {"a", "b", "v", "x"}
IdentChars == Digits \cup Letters \cup {"-", "."}
OpChars == {"~", "^", ">", "<", "="}

\* ASCII code of each character of the model's alphabet.
Byte ==
    " " :> 32 @@ "+" :> 43 @@ "-" :> 45 @@ "." :> 46 @@
    "0" :> 48 @@ "1" :> 49 @@ "2" :> 50 @@ "3" :> 51 @@ "4" :> 52 @@
    "5" :> 53 @@ "6" :> 54 @@ "7" :> 55 @@ "8" :> 56 @@ "9" :> 57 @@
    "<" :> 60 @@ "=" :> 61 @@ ">" :> 62 @@ "^" :> 94 @@
    "a" :> 97 @@ "b" :> 98 @@ "v" :> 118 @@ "x" :> 120 @@ "~" :> 126

DigitVal ==
    "0" :> 0 @@ "1" :> 1 @@ "2" :> 2 @@ "3" :> 3 @@ "4" :> 4 @@
    "5" :> 5 @@ "6" :> 6 @@ "7" :> 7 @@ "8" :> 8 @@ "9" :> 9

DigitChar == <<"0", "1", "2", "3", "4", "5", "6", "7", "8", "9">>

Drop(s, n) == SubSeq(s, n + 1, Len(s))
Take(s, n) == SubSeq(s, 1, n)

HasPrefix(s, p) == Len(s) >= Len(p) /\ Take(s, Len(p)) = p

TrimPrefix(s, p) == IF HasPrefix(s, p) THEN Drop(s, Len(p)) ELSE s

RECURSIVE TrimLeft(_)
TrimLeft(s) ==
    IF s # <<>> /\ s[1] = " " THEN TrimLeft(Tail(s)) ELSE s

RECURSIVE TrimRight(_)
TrimRight(s) ==
    IF s # <<>> /\ s[Len(s)] = " " THEN TrimRight(Take(s, Len(s) - 1)) ELSE s

TrimSpace(s) == TrimRight(TrimLeft(s))

\* Length of the longest run of characters of class cls that starts at s[i].
RECURSIVE Span(_, _, _)
Span(s, i, cls) ==
    IF i <= Len(s) /\ s[i] \in cls THEN 1 + Span(s, i + 1, cls) ELSE 0

\* strconv.Atoi on a run of decimal digits.
RECURSIVE Atoi(_)
Atoi(s) ==
    IF s = <<>> THEN 0
    ELSE 10 * Atoi(Take(s, Len(s) - 1)) + DigitVal[s[Len(s)]]

\* fmt's %d for a non-negative integer.
RECURSIVE Itoa(_)
Itoa(n) ==
    IF n < 10 THEN <<DigitChar[n + 1]>>
    ELSE Itoa(n \div 10) \o <<DigitChar[(n % 10) + 1]>>

\* Go's built-in comparison of strings: -1, 0 or 1 by bytes, left to right.
RECURSIVE StrCmp(_, _)
StrCmp(a, b) ==
    IF a = <<>> /\ b = <<>> THEN 0
    ELSE IF a = <<>> THEN -1
    ELSE IF b = <<>> THEN 1
    ELSE IF Byte[a[1]] < Byte[b[1]] THEN -1
    ELSE IF Byte[a[1]] > Byte[b[1]] THEN 1
    ELSE StrCmp(Tail(a), Tail(b))

----------------------------------------------------------------------------
(* pkg/semver *)

ErrNil == "nil"

Version(major, minor, patch, pre, build) ==
    [Major |-> major, Minor |-> minor, Patch |-> patch,
     Prerelease |-> pre, Build |-> build]

\* The nil *Version.
NilVersion == Version(-1, -1, -1, <<>>, <<>>)

NormalizeVersion_KeepsEquals(s) ==
    TrimSpace(
        TrimPrefix(
            TrimPrefix(
                TrimPrefix(
                    TrimPrefix(
                        TrimPrefix(
                            TrimPrefix(TrimSpace(s), <<"^">>),
                            <<"~">>),
                        <<">", "=">>),
                    <<">">>),
                <<"<", "=">>),
            <<"<">>))

NormalizeVersion(s) ==
    TrimSpace(
        TrimPrefix(
            TrimPrefix(
                TrimPrefix(
                    TrimPrefix(
                        TrimPrefix(
                            TrimPrefix(
                                TrimPrefix(TrimSpace(s), <<"^">>),
                                <<"~">>),
                            <<">", "=">>),
                        <<">">>),
                    <<"<", "=">>),
                <<"<">>),
            <<"=">>))

\* Characters taken at s[i] by an optional group: the separator sep and a
\* non-empty run of class cls, or nothing.
OptGroup(s, i, sep, cls) ==
    IF i <= Len(s) /\ s[i] = sep /\ Span(s, i + 1, cls) > 0
    THEN 1 + Span(s, i + 1, cls)
    ELSE 0

\* Text of the optional group matched over s[from .. to - 1], less its
\* separator.
GroupText(s, from, to) ==
    IF to > from THEN SubSeq(s, from + 1, to - 1) ELSE <<>>

\* The groups of semverRegex, given the positions at which its successive
\* parts end: the optional v (i0), the major digits (i1), the optional
\* minor (i2), patch (i3), prerelease (i4) and build (i5) groups.
semverGroups(s, i0, i1, i2, i3, i4, i5) ==
    IF i1 > i0 /\ i5 = Len(s) + 1
    THEN [ok |-> TRUE,
          m1 |-> SubSeq(s, i0, i1 - 1),
          m2 |-> GroupText(s, i1, i2),
          m3 |-> GroupText(s, i2, i3),
          m4 |-> GroupText(s, i3, i4),
          m5 |-> GroupText(s, i4, i5)]
    ELSE [ok |-> FALSE, m1 |-> <<>>, m2 |-> <<>>, m3 |-> <<>>,
          m4 |-> <<>>, m5 |-> <<>>]

semverBuild(s, i0, i1, i2, i3, i4) ==
    semverGroups(s, i0, i1, i2, i3, i4, i4 + OptGroup(s, i4, "+", IdentChars))

semverPrerelease(s, i0, i1, i2, i3) ==
    semverBuild(s, i0, i1, i2, i3, i3 + OptGroup(s, i3, "-", IdentChars))

semverPatch(s, i0, i1, i2) ==
    semverPrerelease(s, i0, i1, i2, i2 + OptGroup(s, i2, ".", Digits))

semverMinor(s, i0, i1) ==
    semverPatch(s, i0, i1, i1 + OptGroup(s, i1, ".", Digits))

semverMajor(s, i0) ==
    semverMinor(s, i0, i0 + Span(s, i0, Digits))

\* semverRegex.FindStringSubmatch: the five groups, or no match.
\* ^v?(\d+)(?:\.(\d+))?(?:\.(\d+))?(?:-([0-9A-Za-z-.]+))?(?:\+([0-9A-Za-z-.]+))?$
semverRegex(s) ==
    semverMajor(s, IF Len(s) >= 1 /\ s[1] = "v" THEN 2 ELSE 1)

\* constraintRegex taking one operator character where it takes the run.
constraintGroups_OneChar(s, k) ==
    IF Len(s) = 0
    THEN [ok |-> FALSE, m1 |-> <<>>, m2 |-> <<>>]
    ELSE IF k = 0 \/ Len(s) = 1
    THEN [ok |-> TRUE, m1 |-> <<>>, m2 |-> s]
    ELSE [ok |-> TRUE, m1 |-> Take(s, 1), m2 |-> Drop(s, 1)]

\* The groups of constraintRegex when the operator run has k characters:
\* the run is greedy but leaves at least one character to the second group.
constraintGroups(s, k) ==
    IF Len(s) = 0
    THEN [ok |-> FALSE, m1 |-> <<>>, m2 |-> <<>>]
    ELSE IF k = Len(s)
    THEN [ok |-> TRUE, m1 |-> Take(s, k - 1), m2 |-> Drop(s, k - 1)]
    ELSE [ok |-> TRUE, m1 |-> Take(s, k), m2 |-> Drop(s, k)]

\* constraintRegex.FindStringSubmatch for ^([~^><=]*)(.+)$
constraintRegex(s) == constraintGroups(s, Span(s, 1, OpChars))

\* Parse carrying the minor over into a patch that was left out.
ParseGroups_PatchFromMinor(m) ==
    IF ~m.ok
    THEN [v |-> NilVersion, err |-> "invalid semver"]
    ELSE [v |-> Version(Atoi(m.m1),
                        IF Len(m.m2) > 0 THEN Atoi(m.m2) ELSE 0,
                        IF Len(m.m3) > 0 THEN Atoi(m.m3) ELSE Atoi(m.m2),
                        m.m4, m.m5),
          err |-> ErrNil]

\* The Version that Parse builds from the groups m of semverRegex.
ParseGroups(m) ==
    IF ~m.ok
    THEN [v |-> NilVersion, err |-> "invalid semver"]
    ELSE [v |-> Version(Atoi(m.m1),
                        IF Len(m.m2) > 0 THEN Atoi(m.m2) ELSE 0,
                        IF Len(m.m3) > 0 THEN Atoi(m.m3) ELSE 0,
                        m.m4, m.m5),
          err |-> ErrNil]

Parse(s) == ParseGroups(semverRegex(NormalizeVersion(s)))

\* ParseConstraint when constraintRegex does not match: p is Parse of the
\* whole string.
ParsePlain(p) ==
    IF p.err # ErrNil
    THEN [type |-> <<>>, v |-> NilVersion, err |-> "invalid constraint format"]
    ELSE [type |-> <<>>, v |-> p.v, err |-> ErrNil]

\* ParseConstraint after the second attempt at the version part returned q.
ParseRetry(type, q) ==
    IF q.err = ErrNil
    THEN [type |-> type, v |-> q.v, err |-> ErrNil]
    ELSE [type |-> <<>>, v |-> NilVersion, err |-> q.err]

\* ParseConstraint after Parse of the version part returned p; on an error
\* the version part is normalized and parsed again.
ParseVersionPart(type, versionStr, p) ==
    IF p.err = ErrNil
    THEN [type |-> type, v |-> p.v, err |-> ErrNil]
    ELSE ParseRetry(type, Parse(NormalizeVersion(versionStr)))

\* ParseConstraint given the groups m of constraintRegex.
ParseConstraintGroups(s, m) ==
    IF ~m.ok
    THEN ParsePlain(Parse(s))
    ELSE ParseVersionPart(m.m1, m.m2, Parse(m.m2))

ParseConstraint(s) == ParseConstraintGroups(s, constraintRegex(s))

\* Compare with the rule for a missing prerelease turned round.
Compare_PrereleaseOutranks(a, b) ==
    IF a.Major # b.Major THEN (IF a.Major > b.Major THEN 1 ELSE -1)
    ELSE IF a.Minor # b.Minor THEN (IF a.Minor > b.Minor THEN 1 ELSE -1)
    ELSE IF a.Patch # b.Patch THEN (IF a.Patch > b.Patch THEN 1 ELSE -1)
    ELSE IF a.Prerelease = <<>> /\ b.Prerelease # <<>> THEN -1
    ELSE IF a.Prerelease # <<>> /\ b.Prerelease = <<>> THEN 1
    ELSE IF a.Prerelease = <<>> /\ b.Prerelease = <<>> THEN 0
    ELSE StrCmp(a.Prerelease, b.Prerelease)

\* Compare whose minor step lacks its "return -1" and falls through to
\* the patch step.
Compare_MinorFallsThrough(a, b) ==
    IF a.Major # b.Major THEN (IF a.Major > b.Major THEN 1 ELSE -1)
    ELSE IF a.Minor > b.Minor THEN 1
    ELSE IF a.Patch # b.Patch THEN (IF a.Patch > b.Patch THEN 1 ELSE -1)
    ELSE IF a.Prerelease = <<>> /\ b.Prerelease # <<>> THEN 1
    ELSE IF a.Prerelease # <<>> /\ b.Prerelease = <<>> THEN -1
    ELSE IF a.Prerelease = <<>> /\ b.Prerelease = <<>> THEN 0
    ELSE StrCmp(a.Prerelease, b.Prerelease)

Compare(a, b) ==
    IF a.Major # b.Major THEN (IF a.Major > b.Major THEN 1 ELSE -1)
    ELSE IF a.Minor # b.Minor THEN (IF a.Minor > b.Minor THEN 1 ELSE -1)
    ELSE IF a.Patch # b.Patch THEN (IF a.Patch > b.Patch THEN 1 ELSE -1)
    ELSE IF a.Prerelease = <<>> /\ b.Prerelease # <<>> THEN 1
    ELSE IF a.Prerelease # <<>> /\ b.Prerelease = <<>> THEN -1
    ELSE IF a.Prerelease = <<>> /\ b.Prerelease = <<>> THEN 0
    ELSE StrCmp(a.Prerelease, b.Prerelease)

\* String writing the prerelease after a "+".
String_PrereleaseAsBuild(a) ==
    Itoa(a.Major) \o <<".">> \o Itoa(a.Minor) \o <<".">> \o Itoa(a.Patch)
    \o (IF a.Prerelease # <<>> THEN <<"+">> \o a.Prerelease ELSE <<>>)
    \o (IF a.Build # <<>> THEN <<"+">> \o a.Build ELSE <<>>)

String(a) ==
    Itoa(a.Major) \o <<".">> \o Itoa(a.Minor) \o <<".">> \o Itoa(a.Patch)
    \o (IF a.Prerelease # <<>> THEN <<"-">> \o a.Prerelease ELSE <<>>)
    \o (IF a.Build # <<>> THEN <<"+">> \o a.Build ELSE <<>>)

\* The ^ case with the lower bound made exclusive.
CaretCompatible_Exclusive(a, c) ==
    IF c.Major > 0
    THEN a.Major = c.Major /\ Compare(a, c) > 0
    ELSE IF c.Minor > 0
    THEN a.Major = 0 /\ a.Minor = c.Minor /\ Compare(a, c) > 0
    ELSE a.Major = 0 /\ a.Minor = 0 /\ a.Patch = c.Patch

\* The ^ case of IsCompatible's switch.
CaretCompatible(a, c) ==
    IF c.Major > 0
    THEN a.Major = c.Major /\ Compare(a, c) >= 0
    ELSE IF c.Minor > 0
    THEN a.Major = 0 /\ a.Minor = c.Minor /\ Compare(a, c) >= 0
    ELSE a.Major = 0 /\ a.Minor = 0 /\ a.Patch = c.Patch

\* The ~ case of IsCompatible's switch.
TildeCompatible(a, c) ==
    a.Major = c.Major /\ a.Minor = c.Minor /\ a.Patch >= c.Patch

\* The switch with the >= case decided like the > case.
CompatSwitch_GeAsGt(a, type, c) ==
    IF type = <<"^">> THEN [ok |-> CaretCompatible(a, c), err |-> ErrNil]
    ELSE IF type = <<"~">> THEN [ok |-> TildeCompatible(a, c), err |-> ErrNil]
    ELSE IF type = <<">">> THEN [ok |-> Compare(a, c) > 0, err |-> ErrNil]
    ELSE IF type = <<">", "=">> THEN [ok |-> Compare(a, c) > 0, err |-> ErrNil]
    ELSE IF type = <<"<">> THEN [ok |-> Compare(a, c) < 0, err |-> ErrNil]
    ELSE IF type = <<"<", "=">> THEN [ok |-> Compare(a, c) <= 0, err |-> ErrNil]
    ELSE IF type \in {<<"=">>, <<>>}
    THEN [ok |-> Compare(a, c) = 0, err |-> ErrNil]
    ELSE [ok |-> FALSE, err |-> "unsupported constraint type"]

\* The switch of IsCompatible over the parsed constraint.
CompatSwitch(a, type, c) ==
    IF type = <<"^">> THEN [ok |-> CaretCompatible(a, c), err |-> ErrNil]
    ELSE IF type = <<"~">> THEN [ok |-> TildeCompatible(a, c), err |-> ErrNil]
    ELSE IF type = <<">">> THEN [ok |-> Compare(a, c) > 0, err |-> ErrNil]
    ELSE IF type = <<">", "=">> THEN [ok |-> Compare(a, c) >= 0, err |-> ErrNil]
    ELSE IF type = <<"<">> THEN [ok |-> Compare(a, c) < 0, err |-> ErrNil]
    ELSE IF type = <<"<", "=">> THEN [ok |-> Compare(a, c) <= 0, err |-> ErrNil]
    ELSE IF type \in {<<"=">>, <<>>}
    THEN [ok |-> Compare(a, c) = 0, err |-> ErrNil]
    ELSE [ok |-> FALSE, err |-> "unsupported constraint type"]

\* The return values r of IsCompatible's switch, with the locals.
WithLocals(r, p, c) ==
    [ok |-> r.ok, err |-> r.err, v |-> p.v, type |-> c.type, cv |-> c.v]

\* IsCompatible once Parse returned p and ParseConstraint returned c; the
\* result carries the locals along.
IsCompatibleParsed(p, c) ==
    IF p.err # ErrNil
    THEN [ok |-> FALSE, err |-> "invalid version", v |-> NilVersion,
          type |-> <<>>, cv |-> NilVersion]
    ELSE IF c.err # ErrNil
    THEN [ok |-> FALSE, err |-> "invalid constraint", v |-> p.v,
          type |-> <<>>, cv |-> NilVersion]
    ELSE WithLocals(CompatSwitch(p.v, c.type, c.v), p, c)

IsCompatible(ver, con) == IsCompatibleParsed(Parse(ver), ParseConstraint(con))

----------------------------------------------------------------------------
(* Inputs *)

Nums == 0 .. MaxNum
Prereleases == {<<>>, <<"a">>, <<"a", "b">>, <<"b">>}
Builds == {<<>>, <<"x">>}

\* Version values handed to Compare.
CmpVersions ==
    {Version(ma, mi, pa, pre, bld) :
        ma \in Nums, mi \in Nums, pa \in Nums,
        pre \in Prereleases, bld \in Builds}

cmpIdle ==
    /\ v1 = NilVersion /\ v2 = NilVersion /\ cmpResult = 0

compatIdle ==
    /\ version = <<>> /\ constraint = <<>>
    /\ v = NilVersion /\ constraintType = <<>>
    /\ constraintVersion = NilVersion
    /\ compatible = FALSE /\ compatErr = ErrNil

fbuIdle ==
    /\ currentVersion = <<>> /\ infoVersions = {} /\ infoErr = FALSE
    /\ fbuType = <<>> /\ fbuVersion = NilVersion
    /\ remaining = {}
    /\ bestVersion = NilVersion /\ bestVersionStr = <<>>
    /\ ret = <<>> /\ retErr = ErrNil

\* The CPEMatch record with no bound set.
NoBounds ==
    [VersionStartExcluding |-> <<>>, VersionStartIncluding |-> <<>>,
     VersionEndExcluding |-> <<>>, VersionEndIncluding |-> <<>>]

rangeIdle ==
    /\ cpeVersion = NilVersion /\ cpeMatch = NoBounds /\ inRange = FALSE

vulnIdle ==
    /\ vulnVersion = NilVersion /\ vulnerableRanges = <<>>
    /\ vulnerable = FALSE

parseIdle ==
    /\ strVersion = NilVersion /\ input = <<>>
    /\ parseOut = [type |-> <<>>, v |-> NilVersion, err |-> ErrNil]

fvIdle ==
    /\ fvClient = "none" /\ fvEcosystem = "" /\ fvVersion = <<>>
    /\ fvFetchErr = FALSE /\ fvResponse = <<>>
    /\ fvParsed = NilVersion /\ fvIndex = 0
    /\ fvResult = <<>> /\ fvErr = ErrNil

secIdle == rangeIdle /\ vulnIdle /\ parseIdle /\ fvIdle

\* A map with no key.
EmptyMap == [k \in {} |-> <<>>]

rmIdle ==
    /\ rmPackages = EmptyMap /\ rmScanFails = {} /\ rmRemaining = {}
    /\ rmReports = EmptyMap /\ rmErrors = <<>> /\ rmErr = FALSE

upIdle == upSimulate = FALSE /\ upNewVersionStr = <<>> /\ upgrades = {}

udIdle ==
    /\ udBefore = EmptyMap /\ udDeps = EmptyMap /\ udDevDeps = EmptyMap
    /\ udName = 0 /\ udVersion = <<>> /\ udResult = FALSE

sbIdle == sbBefore = <<>> /\ sbVulns = <<>>

wkIdle ==
    /\ wkCall = <<>> /\ wkPc = <<>> /\ wkLocal = <<>> /\ wkResult = <<>>

nvIdle ==
    /\ nvParts = [op |-> <<>>, s |-> <<>>] /\ nvInput = <<>>
    /\ nvOnce = <<>> /\ nvTwice = <<>>

appIdle == rmIdle /\ upIdle /\ udIdle /\ sbIdle /\ wkIdle /\ nvIdle

----------------------------------------------------------------------------
(* Compare applied to a pair of versions *)

InitCompare ==
    /\ pc = "compare"
    /\ v1 \in CmpVersions /\ v2 \in CmpVersions
    /\ cmpResult = 0
    /\ compatIdle /\ fbuIdle /\ secIdle
    /\ appIdle

DoCompare ==
    /\ pc = "compare"
    /\ cmpResult' = Compare(v1, v2)
    /\ pc' = "compared"
    /\ UNCHANGED <<v1, v2, compatVars, fbuVars, secVars, appVars>>

NextCompare == DoCompare

SpecCompare == InitCompare /\ [][NextCompare]_vars

----------------------------------------------------------------------------
(* Properties of Compare *)

\* a sorts before b byte by byte: at the first differing position a has
\* the smaller byte, or a is a proper prefix of b.
ByteLess(a, b) ==
    \E k \in 0 .. Len(a) :
        /\ k <= Len(b)
        /\ \A i \in 1 .. k : a[i] = b[i]
        /\ \/ (k = Len(a) /\ k < Len(b))
           \/ (k < Len(a) /\ k < Len(b) /\ Byte[a[k + 1]] < Byte[b[k + 1]])

SameCore(a, b) ==
    a.Major = b.Major /\ a.Minor = b.Minor /\ a.Patch = b.Patch

\* C4: Compare decides by major, then minor, then patch; on an equal core
\* a version without prerelease is the greater, two prereleases are ordered
\* byte-wise, Build never changes the result, and the result is 0 exactly
\* when major, minor, patch and prerelease are all equal.
C4_CompareOrder ==
    pc = "compared" =>
        /\ v1.Major > v2.Major => cmpResult = 1
        /\ v1.Major < v2.Major => cmpResult = -1
        /\ (v1.Major = v2.Major /\ v1.Minor > v2.Minor) => cmpResult = 1
        /\ (v1.Major = v2.Major /\ v1.Minor < v2.Minor) => cmpResult = -1
        /\ (v1.Major = v2.Major /\ v1.Minor = v2.Minor /\ v1.Patch > v2.Patch)
            => cmpResult = 1
        /\ (v1.Major = v2.Major /\ v1.Minor = v2.Minor /\ v1.Patch < v2.Patch)
            => cmpResult = -1
        /\ (SameCore(v1, v2) /\ v1.Prerelease = <<>> /\ v2.Prerelease # <<>>)
            => cmpResult = 1
        /\ (SameCore(v1, v2) /\ v1.Prerelease # <<>> /\ v2.Prerelease = <<>>)
            => cmpResult = -1
        /\ (SameCore(v1, v2) /\ v1.Prerelease # <<>> /\ v2.Prerelease # <<>>)
            => /\ cmpResult = -1 <=> ByteLess(v1.Prerelease, v2.Prerelease)
               /\ cmpResult = 1 <=> ByteLess(v2.Prerelease, v1.Prerelease)
        /\ \A b1 \in Builds, b2 \in Builds :
            Compare([v1 EXCEPT !.Build = b1], [v2 EXCEPT !.Build = b2])
                = cmpResult
        /\ cmpResult = 0 <=>
            (SameCore(v1, v2) /\ v1.Prerelease = v2.Prerelease)

\* Two versions that differ only in prerelease and build were compared, the
\* first prerelease a proper prefix of the second.
C4_Witness ==
    /\ pc = "compared"
    /\ SameCore(v1, v2)
    /\ v1.Prerelease = <<"a">> /\ v2.Prerelease = <<"a", "b">>
    /\ v1.Build # v2.Build
    /\ cmpResult = -1

\* C5: Compare is reflexive (Compare(v, v) = 0), antisymmetric
\* (Compare(a, b) = -Compare(b, a)) and transitive (a <= b and b <= c
\* give a <= c).
C5_CompareIsOrdering ==
    pc = "compared" =>
        /\ Compare(v1, v1) = 0
        /\ cmpResult = 0 - Compare(v2, v1)
        /\ cmpResult <= 0 =>
            \A c \in CmpVersions :
                Compare(v2, c) <= 0 => Compare(v1, c) <= 0

\* v1 < v2 by prerelease alone, and v2 is not the greatest version, so the
\* transitivity premise holds for some third version.
C5_Witness ==
    /\ pc = "compared"
    /\ cmpResult = -1
    /\ SameCore(v1, v2) /\ v1.Prerelease # <<>> /\ v2.Prerelease = <<>>
    /\ v2.Patch < MaxNum

----------------------------------------------------------------------------
(* IsCompatible applied to a version string and a constraint string *)

OpTokens ==
    {<<>>, <<"=">>, <<">">>, <<">", "=">>, <<"<">>, <<"<", "=">>,
     <<"^">>, <<"~">>}

\* Versions whose canonical strings are handed to IsCompatible.
CompatVersions ==
    {Version(ma, mi, pa, pre, <<>>) :
        ma \in Nums, mi \in Nums, pa \in Nums, pre \in {<<>>, <<"a">>}}

\* Bare version strings: canonical ones, one with a leading v, one with
\* minor and patch left out, one with build metadata.
BareVersionStrs ==
    {String(x) : x \in CompatVersions}
    \cup {<<"v", "1", ".", "0", ".", "1">>, <<"1">>,
          <<"1", ".", "0", ".", "0", "+", "x">>}

VersionInputs == BareVersionStrs \cup {<<"x">>, <<>>}

ConstraintInputs ==
    {op \o x : op \in OpTokens, x \in BareVersionStrs}
    \cup {<<"^", "~", "1", ".", "0", ".", "0">>,
          <<"^", " ", "1", ".", "0", ".", "0">>,
          <<"x">>, <<">", "=">>, <<>>}

InitCompat ==
    /\ pc = "compat"
    /\ version \in VersionInputs
    /\ constraint \in ConstraintInputs
    /\ v = NilVersion /\ constraintType = <<>>
    /\ constraintVersion = NilVersion
    /\ compatible = FALSE /\ compatErr = ErrNil
    /\ cmpIdle /\ fbuIdle /\ secIdle
    /\ appIdle

DoIsCompatible ==
    /\ pc = "compat"
    /\ \E r \in {IsCompatible(version, constraint)} :
           /\ v' = r.v
           /\ constraintType' = r.type
           /\ constraintVersion' = r.cv
           /\ compatible' = r.ok
           /\ compatErr' = r.err
    /\ pc' = "checked"
    /\ UNCHANGED <<version, constraint, cmpVars, fbuVars, secVars, appVars>>

NextCompat == DoIsCompatible

SpecCompat == InitCompat /\ [][NextCompat]_vars

C2_TildeRule ==
    (pc = "checked" /\ compatErr = ErrNil /\ constraintType = <<"~">>) =>
        (compatible <=>
            /\ v.Major = constraintVersion.Major
            /\ v.Minor = constraintVersion.Minor
            /\ Compare(v, constraintVersion) >= 0)

CmpOpTokens ==
    {<<">">>, <<">", "=">>, <<"<">>, <<"<", "=">>, <<"=">>, <<>>}

\* Whether result n of Compare stands in relation op to 0.
Rel(op, n) ==
    IF op = <<">">> THEN n > 0
    ELSE IF op = <<">", "=">> THEN n >= 0
    ELSE IF op = <<"<">> THEN n < 0
    ELSE IF op = <<"<", "=">> THEN n <= 0
    ELSE n = 0

\* C3: for op in >, >=, <, <=, = and no operator, IsCompatible(v, op+X) is
\* true exactly when Compare(Parse(v), Parse(X)) stands in relation op to 0,
\* and "=" and no operator give the same result for the same v and X.
C3_ComparisonOperators ==
    (pc = "checked" /\ Parse(version).err = ErrNil) =>
        \A op \in CmpOpTokens :
            LET X == Drop(constraint, Len(op))
            IN  (HasPrefix(constraint, op) /\ X \in BareVersionStrs) =>
                    /\ compatErr = ErrNil
                    /\ compatible <=>
                        Rel(op, Compare(Parse(version).v, Parse(X).v))
                    /\ op = <<>> =>
                        compatible = IsCompatible(version, <<"=">> \o X).ok
                    /\ op = <<"=">> =>
                        compatible = IsCompatible(version, X).ok

\* A >= constraint was checked against a version equal to its bound.
C3_Witness ==
    /\ pc = "checked" /\ compatErr = ErrNil
    /\ constraintType = <<">", "=">>
    /\ Compare(v, constraintVersion) = 0
    /\ compatible

----------------------------------------------------------------------------
(* pkg/npm: RegistryClient.FindBestUpgrade *)

\* The switch with the exact case open to every major.
Eligible_ExactAnyMajor(type, cand, ver) ==
    IF type = <<"^">>
    THEN IF ver.Major > 0
         THEN cand.Major = ver.Major /\ Compare(cand, ver) > 0
         ELSE IF ver.Minor > 0
         THEN cand.Major = 0 /\ cand.Minor = ver.Minor /\ Compare(cand, ver) > 0
         ELSE cand.Major = 0 /\ cand.Minor = 0 /\ Compare(cand, ver) > 0
    ELSE IF type = <<"~">>
    THEN cand.Major = ver.Major /\ cand.Minor = ver.Minor
            /\ Compare(cand, ver) > 0
    ELSE IF type = <<">">> THEN Compare(cand, ver) > 0
    ELSE IF type = <<">", "=">> THEN Compare(cand, ver) >= 0
    ELSE IF type = <<"<">> THEN Compare(cand, ver) < 0
    ELSE IF type = <<"<", "=">> THEN Compare(cand, ver) <= 0
    ELSE IF type \in {<<"=">>, <<>>}
    THEN Compare(cand, ver) > 0
    ELSE FALSE

\* The switch of the range loop: whether cand is an eligible upgrade of ver.
Eligible(type, cand, ver) ==
    IF type = <<"^">>
    THEN IF ver.Major > 0
         THEN cand.Major = ver.Major /\ Compare(cand, ver) > 0
         ELSE IF ver.Minor > 0
         THEN cand.Major = 0 /\ cand.Minor = ver.Minor /\ Compare(cand, ver) > 0
         ELSE cand.Major = 0 /\ cand.Minor = 0 /\ Compare(cand, ver) > 0
    ELSE IF type = <<"~">>
    THEN cand.Major = ver.Major /\ cand.Minor = ver.Minor
            /\ Compare(cand, ver) > 0
    ELSE IF type = <<">">> THEN Compare(cand, ver) > 0
    ELSE IF type = <<">", "=">> THEN Compare(cand, ver) >= 0
    ELSE IF type = <<"<">> THEN Compare(cand, ver) < 0
    ELSE IF type = <<"<", "=">> THEN Compare(cand, ver) <= 0
    ELSE IF type \in {<<"=">>, <<>>}
    THEN cand.Major = ver.Major /\ Compare(cand, ver) > 0
    ELSE FALSE

\* The replacement test letting an equal candidate take over.
Replaces_OrEqual(eligible, cand, best) ==
    eligible /\ (best = NilVersion \/ Compare(cand, best) >= 0)

\* The replacement test with the comparison turned round.
Replaces_Smaller(eligible, cand, best) ==
    eligible /\ (best = NilVersion \/ Compare(cand, best) < 0)

\* Whether the loop replaces its current best by cand.
Replaces(eligible, cand, best) ==
    eligible /\ (best = NilVersion \/ Compare(cand, best) > 0)

NoUpgrade == "no compatible upgrades found"

\* The tail with the already-at-latest branch taken for "=" only.
FBUReturn_OnlyEq(type, ver, cur, keys, best, bestStr) ==
    IF best = NilVersion /\ type = <<"=">> /\ String(ver) \in keys
    THEN [ret |-> String(ver), err |-> ErrNil]
    ELSE IF best = NilVersion /\ type = <<"=">> /\ cur \in keys
    THEN [ret |-> cur, err |-> ErrNil]
    ELSE IF best = NilVersion
    THEN [ret |-> <<>>, err |-> NoUpgrade]
    ELSE [ret |-> type \o bestStr, err |-> ErrNil]

\* The tail without the lookups in info.Versions.
FBUReturn_NoLookup(type, ver, cur, keys, best, bestStr) ==
    IF best = NilVersion /\ type \in {<<"=">>, <<>>}
    THEN [ret |-> String(ver), err |-> ErrNil]
    ELSE IF best = NilVersion
    THEN [ret |-> <<>>, err |-> NoUpgrade]
    ELSE [ret |-> type \o bestStr, err |-> ErrNil]

\* The tail of FindBestUpgrade, after the loop.  The second lookup returns
\* the one key equal to currentVersion or to version.String().
FBUReturn(type, ver, cur, keys, best, bestStr) ==
    IF best = NilVersion /\ type \in {<<"=">>, <<>>} /\ String(ver) \in keys
    THEN [ret |-> String(ver), err |-> ErrNil]
    ELSE IF best = NilVersion /\ type \in {<<"=">>, <<>>} /\ cur \in keys
    THEN [ret |-> cur, err |-> ErrNil]
    ELSE IF best = NilVersion
    THEN [ret |-> <<>>, err |-> NoUpgrade]
    ELSE [ret |-> type \o bestStr, err |-> ErrNil]

\* Keys a registry's version map is made of: canonical versions, one
\* pre-release, one key with a leading v, one that does not parse.
RegistryKeys ==
    {String(Version(0, 0, 1, <<>>, <<>>)),
     String(Version(0, 0, 2, <<>>, <<>>)),
     String(Version(0, 1, 0, <<>>, <<>>)),
     String(Version(0, 1, 1, <<>>, <<>>)),
     String(Version(0, 2, 0, <<>>, <<>>)),
     String(Version(1, 0, 0, <<>>, <<>>)),
     String(Version(1, 0, 1, <<>>, <<>>)),
     String(Version(1, 1, 0, <<>>, <<>>)),
     String(Version(2, 0, 0, <<>>, <<>>)),
     String(Version(1, 0, 1, <<"a">>, <<>>)),
     <<"v", "1", ".", "0", ".", "1">>,
     <<"x">>}

DeclaredVersions ==
    {String(Version(0, 0, 1, <<>>, <<>>)),
     String(Version(0, 1, 0, <<>>, <<>>)),
     String(Version(1, 0, 0, <<>>, <<>>)),
     String(Version(1, 0, 1, <<>>, <<>>)),
     String(Version(2, 0, 0, <<>>, <<>>))}

\* Declared constraint strings handed to FindBestUpgrade.
DeclaredConstraints ==
    {op \o x : op \in OpTokens, x \in DeclaredVersions}
    \cup {<<"v", "1", ".", "0", ".", "1">>,
          <<"^", "~", "1", ".", "0", ".", "0">>,
          <<"x">>}

InitUpgrade ==
    /\ pc = "fbu_parse"
    /\ currentVersion \in DeclaredConstraints
    /\ infoVersions \in
        {ks \in SUBSET RegistryKeys : Cardinality(ks) <= MaxVersions}
    /\ infoErr \in BOOLEAN
    /\ fbuType = <<>> /\ fbuVersion = NilVersion
    /\ remaining = {}
    /\ bestVersion = NilVersion /\ bestVersionStr = <<>>
    /\ ret = <<>> /\ retErr = ErrNil
    /\ cmpIdle /\ compatIdle /\ secIdle
    /\ appIdle

\* semver.ParseConstraint(currentVersion) and its error return.
FBUParseConstraint ==
    /\ pc = "fbu_parse"
    /\ \E c \in {ParseConstraint(currentVersion)} :
           IF c.err # ErrNil
           THEN /\ ret' = <<>> /\ retErr' = c.err
                /\ pc' = "fbu_done"
                /\ UNCHANGED <<fbuType, fbuVersion>>
           ELSE /\ fbuType' = c.type /\ fbuVersion' = c.v
                /\ pc' = "fbu_fetch"
                /\ UNCHANGED <<ret, retErr>>
    /\ UNCHANGED <<currentVersion, infoVersions, infoErr, remaining,
                   bestVersion, bestVersionStr, cmpVars, compatVars, secVars, appVars>>

\* c.GetPackageInfo(packageName) and its error return.
FBUGetPackageInfo ==
    /\ pc = "fbu_fetch"
    /\ IF infoErr
       THEN /\ ret' = <<>> /\ retErr' = "failed to fetch package info"
            /\ pc' = "fbu_done"
            /\ UNCHANGED remaining
       ELSE /\ remaining' = infoVersions
            /\ pc' = "fbu_loop"
            /\ UNCHANGED <<ret, retErr>>
    /\ UNCHANGED <<currentVersion, infoVersions, infoErr, fbuType,
                   fbuVersion, bestVersion, bestVersionStr,
                   cmpVars, compatVars, secVars, appVars>>

\* One iteration of "for versionStr := range info.Versions"; Go visits the
\* keys of a map in no fixed order.
FBULoopBody ==
    /\ pc = "fbu_loop"
    /\ \E versionStr \in remaining :
        \E p \in {Parse(versionStr)} :
            /\ remaining' = remaining \ {versionStr}
            /\ IF p.err = ErrNil
                  /\ Replaces(Eligible(fbuType, p.v, fbuVersion),
                              p.v, bestVersion)
               THEN /\ bestVersion' = p.v
                    /\ bestVersionStr' = versionStr
               ELSE UNCHANGED <<bestVersion, bestVersionStr>>
    /\ UNCHANGED <<pc, currentVersion, infoVersions, infoErr, fbuType,
                   fbuVersion, ret, retErr, cmpVars, compatVars, secVars, appVars>>

\* The statements after the loop.
FBUFinish ==
    /\ pc = "fbu_loop"
    /\ remaining = {}
    /\ \E r \in {FBUReturn(fbuType, fbuVersion, currentVersion,
                           infoVersions, bestVersion, bestVersionStr)} :
           ret' = r.ret /\ retErr' = r.err
    /\ pc' = "fbu_done"
    /\ UNCHANGED <<currentVersion, infoVersions, infoErr, fbuType,
                   fbuVersion, remaining, bestVersion, bestVersionStr,
                   cmpVars, compatVars, secVars, appVars>>

NextUpgrade ==
    \/ FBUParseConstraint
    \/ FBUGetPackageInfo
    \/ FBULoopBody
    \/ FBUFinish

SpecUpgrade == InitUpgrade /\ [][NextUpgrade]_vars

----------------------------------------------------------------------------
(* Properties of FindBestUpgrade *)

\* The call returned an upgrade picked by the loop.
ReturnedUpgrade ==
    pc = "fbu_done" /\ retErr = ErrNil /\ bestVersion # NilVersion

\* The call got past ParseConstraint and GetPackageInfo and has returned.
ReturnedAfterLoop ==
    pc = "fbu_done" /\ ~infoErr /\ ParseConstraint(currentVersion).err = ErrNil

\* The parsed candidates of the registry's version list.
Candidates ==
    {Parse(k).v : k \in {x \in infoVersions : Parse(x).err = ErrNil}}

RangeOpTokens ==
    {<<"^">>, <<"~">>, <<">">>, <<">", "=">>, <<"<">>, <<"<", "=">>}

\* C6: a returned upgrade is the maximum eligible candidate: it is a key of
\* the version list, it is eligible, no eligible candidate compares
\* greater, and under ^ with major > 0 it has the constraint's major.
C6_MaximumEligible ==
    ReturnedUpgrade =>
        /\ ret = fbuType \o bestVersionStr
        /\ bestVersionStr \in infoVersions
        /\ Parse(bestVersionStr).err = ErrNil
        /\ Parse(bestVersionStr).v = bestVersion
        /\ Eligible(fbuType, bestVersion, fbuVersion)
        /\ \A c \in Candidates :
            Eligible(fbuType, c, fbuVersion) => Compare(c, bestVersion) <= 0
        /\ (fbuType = <<"^">> /\ fbuVersion.Major > 0) =>
            bestVersion.Major = fbuVersion.Major

\* ^1.0.0 over a list holding 0.1.0, 1.0.1 and 2.0.0 has returned ^1.0.1.
C6_Witness ==
    /\ ReturnedUpgrade
    /\ currentVersion = <<"^", "1", ".", "0", ".", "0">>
    /\ {<<"0", ".", "1", ".", "0">>, <<"1", ".", "0", ".", "1">>,
        <<"2", ".", "0", ".", "0">>} \subseteq infoVersions
    /\ ret = <<"^", "1", ".", "0", ".", "1">>

\* C7: a version returned as an upgrade for a range constraint
\* (^, ~, >, >=, <, <=) is compatible with the original constraint.
C7_UpgradeSatisfiesConstraint ==
    (ReturnedUpgrade /\ fbuType \in RangeOpTokens) =>
        IsCompatible(bestVersionStr, currentVersion).ok

\* C8: a candidate accepted as eligible, and so a returned upgrade, is
\* strictly newer than the declared version, whatever the operator.
C8_UpgradeStrictlyNewer ==
    ReturnedUpgrade => Compare(bestVersion, fbuVersion) > 0

\* No candidate of the list is strictly greater than the exact constraint's
\* version.
ExactAtLatest ==
    /\ ReturnedAfterLoop
    /\ fbuType \in {<<"=">>, <<>>}
    /\ \A c \in Candidates : Compare(c, fbuVersion) <= 0

\* The version list holds the declared version, under its canonical string
\* or under the declared string.
DeclaredListed ==
    String(fbuVersion) \in infoVersions \/ currentVersion \in infoVersions

\* C9 as stated: for an exact constraint with no strictly greater
\* candidate the call returns the current version and a nil error,
\* whatever the list contains.
C9_AlreadyAtLatestAlways ==
    ExactAtLatest =>
        /\ retErr = ErrNil
        /\ ret \in {String(fbuVersion), currentVersion}

\* C9 amended: for an exact constraint with no strictly greater candidate,
\* the call returns the current version and a nil error when the version
\* list holds that version, and the no-upgrade error when it does not.
C9_AlreadyAtLatestIfListed ==
    ExactAtLatest =>
        IF DeclaredListed
        THEN /\ retErr = ErrNil
             /\ ret \in {String(fbuVersion), currentVersion}
             /\ ret \in infoVersions
             /\ Compare(Parse(ret).v, fbuVersion) = 0
        ELSE retErr = NoUpgrade /\ ret = <<>>

\* A bare exact constraint whose version is the greatest of a list of two
\* has returned that version.
C9_Witness ==
    /\ ExactAtLatest
    /\ fbuType = <<>>
    /\ Cardinality(Candidates) >= 2
    /\ ret = String(fbuVersion)
    /\ retErr = ErrNil

\* C10 as stated: an empty version list gives a non-error outcome.
C10_EmptyListNoError ==
    (ReturnedAfterLoop /\ infoVersions = {}) => retErr = ErrNil

\* C10 amended: an empty version list gives no version and the no-upgrade
\* error, for every operator.
C10_EmptyListNoUpgrade ==
    (ReturnedAfterLoop /\ infoVersions = {}) =>
        retErr = NoUpgrade /\ ret = <<>>

\* An exact constraint has returned from a call over an empty list.
C10_Witness ==
    /\ ReturnedAfterLoop
    /\ infoVersions = {}
    /\ fbuType = <<"=">>
    /\ retErr = NoUpgrade

\* C11: every non-error result is the operator parsed from the input
\* followed by a version string, "=" with the already-at-latest version
\* included.
C11_ResultRePrefixed ==
    (pc = "fbu_done" /\ retErr = ErrNil) =>
        /\ HasPrefix(ret, fbuType)
        /\ Drop(ret, Len(fbuType)) \in infoVersions \cup {String(fbuVersion)}

----------------------------------------------------------------------------
(* pkg/security: isVersionInVulnerableRange *)

\* The four tests of isVersionInVulnerableRange, p being Parse of the
\* bound: each is TRUE when the bound excludes ver.
StartExcludingFails(ver, p) == p.err = ErrNil /\ Compare(ver, p.v) <= 0

StartIncludingFails(ver, p) == p.err = ErrNil /\ Compare(ver, p.v) < 0

\* The versionEndExcluding test letting the end version itself through.
EndExcludingFails_Inclusive(ver, p) == p.err = ErrNil /\ Compare(ver, p.v) > 0

EndExcludingFails(ver, p) == p.err = ErrNil /\ Compare(ver, p.v) >= 0

EndIncludingFails(ver, p) == p.err = ErrNil /\ Compare(ver, p.v) > 0

\* isVersionInVulnerableRange returning false for a bound that does not
\* parse.
isVersionInVulnerableRange_ErrExcludes(ver, m) ==
    IF m.VersionStartExcluding # <<>>
        /\ (Parse(m.VersionStartExcluding).err # ErrNil
            \/ StartExcludingFails(ver, Parse(m.VersionStartExcluding)))
    THEN FALSE
    ELSE IF m.VersionStartIncluding # <<>>
        /\ (Parse(m.VersionStartIncluding).err # ErrNil
            \/ StartIncludingFails(ver, Parse(m.VersionStartIncluding)))
    THEN FALSE
    ELSE IF m.VersionEndExcluding # <<>>
        /\ (Parse(m.VersionEndExcluding).err # ErrNil
            \/ EndExcludingFails(ver, Parse(m.VersionEndExcluding)))
    THEN FALSE
    ELSE IF m.VersionEndIncluding # <<>>
        /\ (Parse(m.VersionEndIncluding).err # ErrNil
            \/ EndIncludingFails(ver, Parse(m.VersionEndIncluding)))
    THEN FALSE
    ELSE TRUE

isVersionInVulnerableRange(ver, m) ==
    IF m.VersionStartExcluding # <<>>
        /\ StartExcludingFails(ver, Parse(m.VersionStartExcluding))
    THEN FALSE
    ELSE IF m.VersionStartIncluding # <<>>
        /\ StartIncludingFails(ver, Parse(m.VersionStartIncluding))
    THEN FALSE
    ELSE IF m.VersionEndExcluding # <<>>
        /\ EndExcludingFails(ver, Parse(m.VersionEndExcluding))
    THEN FALSE
    ELSE IF m.VersionEndIncluding # <<>>
        /\ EndIncludingFails(ver, Parse(m.VersionEndIncluding))
    THEN FALSE
    ELSE TRUE

\* Installed versions handed to the range evaluators.
RangeVersions ==
    {Version(ma, mi, pa, pre, <<>>) :
        ma \in Nums, mi \in Nums, pa \in Nums, pre \in {<<>>, <<"a">>}}

\* Bound strings of a CPE match record: absent, three that parse (one with
\* minor and patch left out), one that does not.
BoundStrs ==
    {<<>>,
     <<"1", ".", "0", ".", "0">>, <<"1", ".", "1", ".", "0">>, <<"2">>,
     <<"x">>}

CPEMatches ==
    [VersionStartExcluding : BoundStrs, VersionStartIncluding : BoundStrs,
     VersionEndExcluding : BoundStrs, VersionEndIncluding : BoundStrs]

InitRange ==
    /\ pc = "range"
    /\ cpeVersion \in RangeVersions
    /\ cpeMatch \in CPEMatches
    /\ inRange = FALSE
    /\ cmpIdle /\ compatIdle /\ fbuIdle
    /\ vulnIdle /\ parseIdle /\ fvIdle
    /\ appIdle

DoInVulnerableRange ==
    /\ pc = "range"
    /\ inRange' = isVersionInVulnerableRange(cpeVersion, cpeMatch)
    /\ pc' = "ranged"
    /\ UNCHANGED <<cpeVersion, cpeMatch, cmpVars, compatVars, fbuVars,
                   vulnVars, parseVars, fvVars, appVars>>

NextRange == DoInVulnerableRange

SpecRange == InitRange /\ [][NextRange]_vars

BoundsOf(m) ==
    {m.VersionStartExcluding, m.VersionStartIncluding,
     m.VersionEndExcluding, m.VersionEndIncluding}

Parseable(b) == Parse(b).err = ErrNil

\* C12: with parseable bounds the version is in range exactly when every
\* present bound holds: v > startExcluding, v >= startIncluding,
\* v < endExcluding, v <= endIncluding; a record with no bound matches
\* every version.
C12_BoundedForm ==
    (pc = "ranged" /\ \A b \in BoundsOf(cpeMatch) : b = <<>> \/ Parseable(b))
    =>
        /\ inRange <=>
            /\ \/ cpeMatch.VersionStartExcluding = <<>>
               \/ Compare(cpeVersion,
                          Parse(cpeMatch.VersionStartExcluding).v) > 0
            /\ \/ cpeMatch.VersionStartIncluding = <<>>
               \/ Compare(cpeVersion,
                          Parse(cpeMatch.VersionStartIncluding).v) >= 0
            /\ \/ cpeMatch.VersionEndExcluding = <<>>
               \/ Compare(cpeVersion,
                          Parse(cpeMatch.VersionEndExcluding).v) < 0
            /\ \/ cpeMatch.VersionEndIncluding = <<>>
               \/ Compare(cpeVersion,
                          Parse(cpeMatch.VersionEndIncluding).v) <= 0
        /\ cpeMatch = NoBounds => inRange

\* A version equal to startIncluding, with an endExcluding above it, was
\* found in range.
C12_Witness ==
    /\ pc = "ranged"
    /\ cpeMatch.VersionStartIncluding = <<"1", ".", "0", ".", "0">>
    /\ cpeMatch.VersionEndExcluding = <<"2">>
    /\ cpeMatch.VersionStartExcluding = <<>>
    /\ cpeMatch.VersionEndIncluding = <<>>
    /\ cpeVersion = Version(1, 0, 0, <<>>, <<>>)
    /\ inRange

SomeBoundUnparseable ==
    \E b \in BoundsOf(cpeMatch) : b # <<>> /\ ~Parseable(b)

\* C13 as stated: a record with a non-empty bound that fails to parse
\* does not report the version as affected.
C13_UnparseableBoundNoMatch ==
    (pc = "ranged" /\ SomeBoundUnparseable) => ~inRange

\* C13 amended: a non-empty bound that fails to parse is passed over as if
\* absent; the record reports the version exactly when the bounds that do
\* parse hold, and always when none of its bounds parses.
C13_UnparseableBoundIgnored ==
    (pc = "ranged" /\ SomeBoundUnparseable) =>
        /\ inRange <=>
            /\ \/ ~Parseable(cpeMatch.VersionStartExcluding)
               \/ Compare(cpeVersion,
                          Parse(cpeMatch.VersionStartExcluding).v) > 0
            /\ \/ ~Parseable(cpeMatch.VersionStartIncluding)
               \/ Compare(cpeVersion,
                          Parse(cpeMatch.VersionStartIncluding).v) >= 0
            /\ \/ ~Parseable(cpeMatch.VersionEndExcluding)
               \/ Compare(cpeVersion,
                          Parse(cpeMatch.VersionEndExcluding).v) < 0
            /\ \/ ~Parseable(cpeMatch.VersionEndIncluding)
               \/ Compare(cpeVersion,
                          Parse(cpeMatch.VersionEndIncluding).v) <= 0
        /\ (\A b \in BoundsOf(cpeMatch) : ~Parseable(b)) => inRange

\* A record whose only bound does not parse reported a version as affected.
C13_Witness ==
    /\ pc = "ranged"
    /\ cpeMatch.VersionEndExcluding = <<"x">>
    /\ cpeMatch.VersionStartExcluding = <<>>
    /\ cpeMatch.VersionStartIncluding = <<>>
    /\ cpeMatch.VersionEndIncluding = <<>>
    /\ inRange

----------------------------------------------------------------------------
(* pkg/security: isVersionVulnerable *)

\* strings.Contains(s, " ").
ContainsSpace(s) == \E i \in 1 .. Len(s) : s[i] = " "

\* strings.Split(s, " "): the pieces between single spaces, empty ones kept.
FirstSpace(s) ==
    CHOOSE i \in 1 .. Len(s) : s[i] = " " /\ \A j \in 1 .. i - 1 : s[j] # " "

RECURSIVE Split(_)
Split(s) ==
    IF ~ContainsSpace(s) THEN <<s>>
    ELSE <<Take(s, FirstSpace(s) - 1)>> \o Split(Drop(s, FirstSpace(s)))

\* The comparison made on a parsed bound p in each pattern.
\* The "<" comparison letting the bound itself through.
LtHolds_OrEqual(ver, p) == p.err = ErrNil /\ Compare(ver, p.v) <= 0

LtHolds(ver, p) == p.err = ErrNil /\ Compare(ver, p.v) < 0

LeHolds(ver, p) == p.err = ErrNil /\ Compare(ver, p.v) <= 0

GeHolds(ver, p) == p.err = ErrNil /\ Compare(ver, p.v) >= 0

GtHolds(ver, p) == p.err = ErrNil /\ Compare(ver, p.v) > 0

\* The bound that follows prefix op in s.
BoundAfter(s, op) == Parse(TrimSpace(TrimPrefix(s, op)))

\* lowerBoundValid, from parts[0] of a two-part range.
LowerBoundValid(ver, part) ==
    IF HasPrefix(part, <<">", "=">>)
    THEN GeHolds(ver, BoundAfter(part, <<">", "=">>))
    ELSE IF HasPrefix(part, <<">">>)
    THEN GtHolds(ver, BoundAfter(part, <<">">>))
    ELSE FALSE

\* upperBoundValid, from parts[1] of a two-part range.
UpperBoundValid(ver, part) ==
    IF HasPrefix(part, <<"<", "=">>)
    THEN LeHolds(ver, BoundAfter(part, <<"<", "=">>))
    ELSE IF HasPrefix(part, <<"<">>)
    THEN LtHolds(ver, BoundAfter(part, <<"<">>))
    ELSE FALSE

\* The two-part check that lets the upper bound go unexamined.
PartsMatch_LowerOnly(ver, parts) ==
    /\ Len(parts) = 2
    /\ LowerBoundValid(ver, parts[1])

PartsMatch(ver, parts) ==
    /\ Len(parts) = 2
    /\ LowerBoundValid(ver, parts[1])
    /\ UpperBoundValid(ver, parts[2])

\* One pass of the loop body: whether rangeStr makes the function return
\* true.
RangeStrMatches(ver, rangeStr) ==
    \/ rangeStr = String(ver)
    \/ /\ HasPrefix(rangeStr, <<"<">>)
       /\ LtHolds(ver, BoundAfter(rangeStr, <<"<">>))
    \/ /\ HasPrefix(rangeStr, <<"<", "=">>)
       /\ LeHolds(ver, BoundAfter(rangeStr, <<"<", "=">>))
    \/ /\ HasPrefix(rangeStr, <<">", "=">>)
       /\ GeHolds(ver, BoundAfter(rangeStr, <<">", "=">>))
    \/ /\ HasPrefix(rangeStr, <<">">>) /\ ~HasPrefix(rangeStr, <<">", "=">>)
       /\ GtHolds(ver, BoundAfter(rangeStr, <<">">>))
    \/ /\ ContainsSpace(rangeStr)
       /\ PartsMatch(ver, Split(rangeStr))

\* The loop giving up at the first entry that does not match.
isVersionVulnerable_FirstOnly(ver, ranges) ==
    IF ranges = <<>> THEN FALSE
    ELSE RangeStrMatches(ver, Head(ranges))

RECURSIVE isVersionVulnerable(_, _)
isVersionVulnerable(ver, ranges) ==
    IF ranges = <<>> THEN FALSE
    ELSE IF RangeStrMatches(ver, Head(ranges)) THEN TRUE
    ELSE isVersionVulnerable(ver, Tail(ranges))

MaxRanges == 2      \* most entries in a vulnerable-range list

S090 == <<"0", ".", "9", ".", "0">>
S100 == <<"1", ".", "0", ".", "0">>
S101 == <<"1", ".", "0", ".", "1">>
S200 == <<"2", ".", "0", ".", "0">>

\* Installed versions checked against advisory ranges.
VulnVersions ==
    {Version(0, 9, 0, <<>>, <<>>), Version(1, 0, 0, <<>>, <<>>),
     Version(1, 0, 1, <<>>, <<>>), Version(1, 0, 1, <<>>, <<"x">>),
     Version(1, 0, 1, <<"a">>, <<>>), Version(1, 1, 0, <<>>, <<>>),
     Version(2, 0, 0, <<>>, <<>>), Version(2, 0, 1, <<>>, <<>>)}

OrderOps == {<<">">>, <<">", "=">>, <<"<">>, <<"<", "=">>}

\* Bare-version entries: canonical, v-prefixed, minor and patch left out.
BareEntries == {S101, <<"v">> \o S101, S100, <<"1">>}

SingleEntries == {op \o S101 : op \in OrderOps}

\* Two comparators, the lower bound first.
LowerUpperEntries ==
    {lo \o S100 \o <<" ">> \o hi \o S200 :
        lo \in {<<">">>, <<">", "=">>}, hi \in {<<"<">>, <<"<", "=">>}}

\* Two comparators in another arrangement.
OtherPairEntries ==
    {<<"<">> \o S200 \o <<" ">> \o <<">", "=">> \o S100,
     <<"<", "=">> \o S200 \o <<" ">> \o <<">">> \o S100,
     <<">", "=">> \o S100 \o <<" ">> \o <<">">> \o S090,
     <<"<">> \o S200 \o <<" ">> \o <<"<", "=">> \o S200}

\* Entries no pattern can read.
MalformedEntries ==
    {<<"x">>, <<"a", " ", "b">>, <<"<">> \o <<"x">>,
     <<">", "=">> \o S100 \o <<" ">> \o <<"<">> \o <<"x">>}

RangeStrs ==
    BareEntries \cup SingleEntries \cup LowerUpperEntries
    \cup OtherPairEntries \cup MalformedEntries

RangeLists == UNION {[1 .. n -> RangeStrs] : n \in 0 .. MaxRanges}

InitVulnerable ==
    /\ pc = "vuln"
    /\ vulnVersion \in VulnVersions
    /\ vulnerableRanges \in RangeLists
    /\ vulnerable = FALSE
    /\ cmpIdle /\ compatIdle /\ fbuIdle
    /\ rangeIdle /\ parseIdle /\ fvIdle
    /\ appIdle

DoIsVersionVulnerable ==
    /\ pc = "vuln"
    /\ vulnerable' = isVersionVulnerable(vulnVersion, vulnerableRanges)
    /\ pc' = "vulned"
    /\ UNCHANGED <<vulnVersion, vulnerableRanges, cmpVars, compatVars,
                   fbuVars, rangeVars, parseVars, fvVars, appVars>>

NextVulnerable == DoIsVersionVulnerable

SpecVulnerable == InitVulnerable /\ [][NextVulnerable]_vars

WellFormedEntry(e) == e \notin MalformedEntries

\* C14: the version is vulnerable exactly when at least one entry of the
\* list matches; a malformed entry matches nothing, and taking the
\* malformed entries out of the list leaves the result as it was.
C14_AnyEntryMatches ==
    pc = "vulned" =>
        /\ vulnerable <=>
            \E i \in DOMAIN vulnerableRanges :
                RangeStrMatches(vulnVersion, vulnerableRanges[i])
        /\ \A i \in DOMAIN vulnerableRanges :
            vulnerableRanges[i] \in MalformedEntries =>
                ~RangeStrMatches(vulnVersion, vulnerableRanges[i])
        /\ vulnerable =
            isVersionVulnerable(vulnVersion,
                                SelectSeq(vulnerableRanges, WellFormedEntry))

\* A malformed entry came first and the entry after it matched.
C14_Witness ==
    /\ pc = "vulned"
    /\ Len(vulnerableRanges) = 2
    /\ vulnerableRanges[1] \in MalformedEntries
    /\ vulnerableRanges[2] \in SingleEntries \cup LowerUpperEntries
    /\ vulnerable

PairBounds == {S090, S100, S200}

\* C15 as stated: a string of two space-separated comparators matches
\* exactly when both hold, for any pair drawn from >, >=, <, <= in either
\* order.
C15_BothComparatorsAnyOrder ==
    pc = "vulned" =>
        \A op1 \in OrderOps, op2 \in OrderOps :
            \A X1 \in PairBounds, X2 \in PairBounds :
                vulnerableRanges = <<op1 \o X1 \o <<" ">> \o op2 \o X2>> =>
                    (vulnerable <=>
                        /\ Rel(op1, Compare(vulnVersion, Parse(X1).v))
                        /\ Rel(op2, Compare(vulnVersion, Parse(X2).v)))

\* C15 amended: two space-separated comparators match exactly when the
\* first is > or >=, the second is < or <=, and both hold; in any other
\* arrangement the string matches no version.
C15_LowerThenUpper ==
    pc = "vulned" =>
        \A op1 \in OrderOps, op2 \in OrderOps :
            \A X1 \in PairBounds, X2 \in PairBounds :
                vulnerableRanges = <<op1 \o X1 \o <<" ">> \o op2 \o X2>> =>
                    (vulnerable <=>
                        /\ op1 \in {<<">">>, <<">", "=">>}
                        /\ op2 \in {<<"<">>, <<"<", "=">>}
                        /\ Rel(op1, Compare(vulnVersion, Parse(X1).v))
                        /\ Rel(op2, Compare(vulnVersion, Parse(X2).v)))

\* ">=1.0.0 <2.0.0" matched 1.0.1.
C15_Witness ==
    /\ pc = "vulned"
    /\ vulnerableRanges = <<<<">", "=">> \o S100 \o <<" ">> \o <<"<">> \o S200>>
    /\ vulnVersion = Version(1, 0, 1, <<>>, <<>>)
    /\ vulnerable

\* C16: a single comparator op+X matches exactly when Compare(v, Parse(X))
\* stands in relation op to 0, and a bare-version entry X exactly when
\* Compare(v, Parse(X)) = 0, however X is spelled and whatever build
\* metadata v carries.
C16_SingleEntry ==
    pc = "vulned" =>
        \A X \in BareEntries :
            /\ \A op \in OrderOps :
                vulnerableRanges = <<op \o X>> =>
                    (vulnerable <=>
                        Rel(op, Compare(vulnVersion, Parse(X).v)))
            /\ vulnerableRanges = <<X>> =>
                (vulnerable <=> Compare(vulnVersion, Parse(X).v) = 0)

----------------------------------------------------------------------------
(* pkg/semver: Parse and ParseConstraint applied to a string *)

\* One to three integer groups.
GroupLists == UNION {[1 .. n -> Nums] : n \in 1 .. 3}

RECURSIVE Dotted(_)
Dotted(g) ==
    IF Len(g) = 1 THEN Itoa(g[1])
    ELSE Dotted(Take(g, Len(g) - 1)) \o <<".">> \o Itoa(g[Len(g)])

\* A bare version as written: optional v, the groups, -prerelease, +build.
Spell(vp, g, pre, build) ==
    (IF vp THEN <<"v">> ELSE <<>>) \o Dotted(g)
    \o (IF pre # <<>> THEN <<"-">> \o pre ELSE <<>>)
    \o (IF build # <<>> THEN <<"+">> \o build ELSE <<>>)

SpelledVersions ==
    {Spell(vp, g, pre, build) :
        vp \in BOOLEAN, g \in GroupLists, pre \in {<<>>, <<"a">>},
        build \in Builds}

\* The empty string, non-numeric text, four groups, an empty group.
BadVersionStrs ==
    {<<>>, <<"x">>, <<"v">>, <<"1", ".", "x">>, <<"a", ".", "1">>,
     <<"1", ".", "2", ".", "0", ".", "1">>, <<"1", ".", ".", "2">>,
     <<".", "1">>}

\* Runs of operator characters that are none of the seven tokens.
OddOpRuns ==
    {<<"^", "~">>, <<"=", ">">>, <<"<", ">">>, <<"=", "=">>,
     <<"^", ">", "=">>}

ConstraintBodies ==
    {S100, <<"1", ".", "2">>, <<"v">> \o S101, <<"x">>, <<>>,
     <<" ", "~", "^">> \o S100}

ConstraintStrs ==
    {op \o body : op \in OpTokens \cup OddOpRuns, body \in ConstraintBodies}

ParseInputs == SpelledVersions \cup BadVersionStrs \cup ConstraintStrs

NoParse == [type |-> <<>>, v |-> NilVersion, err |-> ErrNil]

InitParse ==
    /\ pc = "parse"
    /\ input \in ParseInputs
    /\ strVersion = NilVersion
    /\ parseOut = NoParse
    /\ cmpIdle /\ compatIdle /\ fbuIdle
    /\ rangeIdle /\ vulnIdle /\ fvIdle
    /\ appIdle

DoParse ==
    /\ pc = "parse"
    /\ \E r \in {Parse(input)} :
        parseOut' = [type |-> <<>>, v |-> r.v, err |-> r.err]
    /\ pc' = "parsed"
    /\ UNCHANGED <<strVersion, input, cmpVars, compatVars, fbuVars,
                   rangeVars, vulnVars, fvVars, appVars>>

DoParseConstraint ==
    /\ pc = "parse"
    /\ parseOut' = ParseConstraint(input)
    /\ pc' = "constrained"
    /\ UNCHANGED <<strVersion, input, cmpVars, compatVars, fbuVars,
                   rangeVars, vulnVars, fvVars, appVars>>

NextParse == DoParse \/ DoParseConstraint

SpecParse == InitParse /\ [][NextParse]_vars

\* The leading run of operator characters of s, which leaves s at least
\* one character.
OpRunLen(s) ==
    IF Span(s, 1, OpChars) = Len(s) THEN Len(s) - 1 ELSE Span(s, 1, OpChars)

RestParse(rest) ==
    IF Parse(rest).err = ErrNil THEN Parse(rest)
    ELSE Parse(NormalizeVersion(rest))

C18_ParseGrammar ==
    pc = "parsed" =>
        /\ \A vp \in BOOLEAN, g \in GroupLists :
            \A pre \in {<<>>, <<"a">>}, build \in Builds :
                input = Spell(vp, g, pre, build) =>
                    /\ parseOut.err = ErrNil
                    /\ parseOut.v =
                        Version(g[1],
                                IF Len(g) > 1 THEN g[2] ELSE 0,
                                IF Len(g) > 2 THEN g[3] ELSE 0,
                                pre, build)
        /\ input \in BadVersionStrs =>
            parseOut.err # ErrNil /\ parseOut.v = NilVersion

\* "v1.2-a" was parsed into 1.2.0 with prerelease a.
C18_Witness ==
    /\ pc = "parsed"
    /\ input = <<"v", "1", ".", "2", "-", "a">>
    /\ parseOut.err = ErrNil
    /\ parseOut.v = Version(1, 2, 0, <<"a">>, <<>>)

----------------------------------------------------------------------------
(* pkg/semver: Version.String followed by Parse *)

\* Versions as Parse builds them, with no build metadata: numbers of one
\* and two digits, prereleases over the characters the grammar allows.
RoundTripNums == Nums \cup {10}

RoundTripPrereleases ==
    {<<>>, <<"a">>, <<"a", ".", "b">>, <<"0">>, <<"-">>, <<"1", "-", "x">>}

RoundTripVersions ==
    {Version(ma, mi, pa, pre, <<>>) :
        ma \in RoundTripNums, mi \in RoundTripNums, pa \in RoundTripNums,
        pre \in RoundTripPrereleases}

InitRoundTrip ==
    /\ pc = "string"
    /\ strVersion \in RoundTripVersions
    /\ input = <<>>
    /\ parseOut = NoParse
    /\ cmpIdle /\ compatIdle /\ fbuIdle
    /\ rangeIdle /\ vulnIdle /\ fvIdle
    /\ appIdle

DoString ==
    /\ pc = "string"
    /\ input' = String(strVersion)
    /\ pc' = "reparse"
    /\ UNCHANGED <<strVersion, parseOut, cmpVars, compatVars, fbuVars,
                   rangeVars, vulnVars, fvVars, appVars>>

DoReparse ==
    /\ pc = "reparse"
    /\ \E r \in {Parse(input)} :
        parseOut' = [type |-> <<>>, v |-> r.v, err |-> r.err]
    /\ pc' = "reparsed"
    /\ UNCHANGED <<strVersion, input, cmpVars, compatVars, fbuVars,
                   rangeVars, vulnVars, fvVars, appVars>>

NextRoundTrip == DoString \/ DoReparse

SpecRoundTrip == InitRoundTrip /\ [][NextRoundTrip]_vars

\* C19: for a Version v with empty build metadata, Parse(v.String())
\* succeeds and returns v: the same major, minor, patch, prerelease and
\* build.
C19_RoundTrip ==
    pc = "reparsed" =>
        /\ parseOut.err = ErrNil
        /\ parseOut.v.Major = strVersion.Major
        /\ parseOut.v.Minor = strVersion.Minor
        /\ parseOut.v.Patch = strVersion.Patch
        /\ parseOut.v.Prerelease = strVersion.Prerelease
        /\ parseOut.v.Build = strVersion.Build

\* 10.0.2-a.b went through String and Parse and came back.
C19_Witness ==
    /\ pc = "reparsed"
    /\ strVersion = Version(10, 0, 2, <<"a", ".", "b">>, <<>>)
    /\ input = <<"1", "0", ".", "0", ".", "2", "-", "a", ".", "b">>
    /\ parseOut.v = strVersion

----------------------------------------------------------------------------
(* pkg/security: NVDClient.FindVulnerabilities and
   GitHubAdvisoryClient.FindVulnerabilities *)

MaxItems == 2       \* most CVEs or advisories in a response

getCPEPrefix(ecosystem) ==
    IF ecosystem \in {"npm", "maven", "pypi", "rubygems", "golang"}
    THEN "cpe:2.3:a"
    ELSE ""

\* A cpeMatch of a CVE: its Vulnerable flag, whether its criteria contain
\* the package's CPE prefix, and its four bounds.
Match(vulnFlag, prefixed, bounds) ==
    [Vulnerable |-> vulnFlag, Prefixed |-> prefixed, Bounds |-> bounds]

EndsBefore2 ==
    [VersionStartExcluding |-> <<>>, VersionStartIncluding |-> <<>>,
     VersionEndExcluding |-> <<"2">>, VersionEndIncluding |-> <<>>]

\* The cpeMatch records of a CVE, in the order the nested loops over
\* configurations, nodes and matches visit them.
NVDItems ==
    {<<Match(TRUE, TRUE, NoBounds)>>,
     <<Match(TRUE, TRUE, EndsBefore2)>>,
     <<Match(FALSE, TRUE, NoBounds)>>,
     <<Match(TRUE, FALSE, NoBounds), Match(TRUE, TRUE, EndsBefore2)>>}

\* An entry of an advisory: whether it names the ecosystem and package
\* asked about, and its vulnerable version ranges.
Info(same, ranges) == [SamePackage |-> same, VulnerableVersions |-> ranges]

AdvisoryItems ==
    {<<Info(TRUE, <<<<"<">> \o S200>>)>>,
     <<Info(FALSE, <<S101>>)>>,
     <<Info(TRUE, <<<<"x">>>>),
       Info(TRUE, <<<<">", "=">> \o S100 \o <<" ">> \o <<"<">> \o S200>>)>>,
     <<>>}

ItemsOf(client) == IF client = "nvd" THEN NVDItems ELSE AdvisoryItems

Responses(client) ==
    UNION {[1 .. n -> ItemsOf(client)] : n \in 0 .. MaxItems}

\* Whether the loops over one CVE, or one advisory, find a match: they
\* stop at the first one.
ItemVulnerable(client, ver, item) ==
    IF client = "nvd"
    THEN \E i \in DOMAIN item :
            /\ item[i].Vulnerable /\ item[i].Prefixed
            /\ isVersionInVulnerableRange(ver, item[i].Bounds)
    ELSE \E i \in DOMAIN item :
            /\ item[i].SamePackage
            /\ isVersionVulnerable(ver, item[i].VulnerableVersions)

\* The step after semver.Parse going on to the loop whatever Parse said.
AfterParse_IgnoresError(r) ==
    [next |-> "fv_loop", v |-> r.v, err |-> ErrNil]

\* The step after semver.Parse returned r.
AfterParse(r) ==
    IF r.err # ErrNil
    THEN [next |-> "fv_done", v |-> NilVersion,
          err |-> "failed to parse version"]
    ELSE [next |-> "fv_loop", v |-> r.v, err |-> ErrNil]

InstalledVersions ==
    {S101, <<"^">> \o S100, <<"~", "^">> \o S100, <<"2">>,
     <<"x">>, <<>>, <<"1", ".", "2", ".", "0", ".", "1">>}

InitFindVulnerabilities ==
    /\ pc = "fv_start"
    /\ fvClient \in {"nvd", "github"}
    /\ fvEcosystem \in {"npm", "cargo"}
    /\ fvVersion \in InstalledVersions
    /\ fvFetchErr = FALSE /\ fvResponse = <<>>
    /\ fvParsed = NilVersion /\ fvIndex = 0
    /\ fvResult = <<>> /\ fvErr = ErrNil
    /\ cmpIdle /\ compatIdle /\ fbuIdle
    /\ rangeIdle /\ vulnIdle /\ parseIdle
    /\ appIdle

otherVars ==
    <<cmpVars, compatVars, fbuVars, rangeVars, vulnVars, parseVars, appVars>>

\* The NVD client refuses an ecosystem it has no CPE prefix for; the
\* GitHub client has no such test.
FVCheckEcosystem ==
    /\ pc = "fv_start"
    /\ IF fvClient = "nvd" /\ getCPEPrefix(fvEcosystem) = ""
       THEN fvErr' = "unsupported ecosystem" /\ pc' = "fv_done"
       ELSE fvErr' = fvErr /\ pc' = "fv_fetch"
    /\ UNCHANGED <<fvClient, fvEcosystem, fvVersion, fvFetchErr, fvResponse,
                   fvParsed, fvIndex, fvResult, otherVars>>

\* The request fails, or a response is decoded.
FVFetch ==
    /\ pc = "fv_fetch"
    /\ \/ /\ fvFetchErr' = TRUE
          /\ fvErr' = "failed to make request"
          /\ pc' = "fv_done"
          /\ UNCHANGED fvResponse
       \/ /\ fvResponse' \in Responses(fvClient)
          /\ pc' = "fv_parse"
          /\ UNCHANGED <<fvFetchErr, fvErr>>
    /\ UNCHANGED <<fvClient, fvEcosystem, fvVersion, fvParsed, fvIndex,
                   fvResult, otherVars>>

FVParse ==
    /\ pc = "fv_parse"
    /\ \E a \in {AfterParse(Parse(NormalizeVersion(fvVersion)))} :
        /\ fvParsed' = a.v
        /\ fvErr' = a.err
        /\ pc' = a.next
    /\ UNCHANGED <<fvClient, fvEcosystem, fvVersion, fvFetchErr, fvResponse,
                   fvIndex, fvResult, otherVars>>

\* One pass of the outer loop, over the next CVE or advisory.
FVLoopBody ==
    /\ pc = "fv_loop"
    /\ fvIndex < Len(fvResponse)
    /\ fvIndex' = fvIndex + 1
    /\ fvResult' =
        IF ItemVulnerable(fvClient, fvParsed, fvResponse[fvIndex + 1])
        THEN Append(fvResult, fvIndex + 1)
        ELSE fvResult
    /\ UNCHANGED <<pc, fvClient, fvEcosystem, fvVersion, fvFetchErr,
                   fvResponse, fvParsed, fvErr, otherVars>>

FVReturn ==
    /\ pc = "fv_loop"
    /\ fvIndex = Len(fvResponse)
    /\ pc' = "fv_done"
    /\ UNCHANGED <<fvVars, otherVars>>

NextFindVulnerabilities ==
    \/ FVCheckEcosystem
    \/ FVFetch
    \/ FVParse
    \/ FVLoopBody
    \/ FVReturn

SpecFindVulnerabilities ==
    InitFindVulnerabilities /\ [][NextFindVulnerabilities]_vars

\* The parse both clients make of the installed version.
InstalledParse == Parse(NormalizeVersion(fvVersion))

\* C20: in both clients, when the installed version fails to parse the
\* call ends with an error and no list, no CVE or advisory having been
\* looked at; the loop is only ever entered with a parsed version.
C20_AbortOnUnparsedVersion ==
    /\ (pc = "fv_done" /\ InstalledParse.err # ErrNil) =>
        /\ fvErr # ErrNil
        /\ fvResult = <<>>
        /\ fvIndex = 0
    /\ (pc = "fv_loop" \/ fvIndex > 0 \/ fvResult # <<>>) =>
        /\ InstalledParse.err = ErrNil
        /\ fvParsed = InstalledParse.v

\* A response with an entry that matches every version was fetched, and
\* the call ended at the parse of the installed version "x".
C20_Witness ==
    /\ pc = "fv_done"
    /\ fvVersion = <<"x">>
    /\ Len(fvResponse) > 0
    /\ fvErr = "failed to parse version"
    /\ fvResult = <<>> /\ fvIndex = 0

----------------------------------------------------------------------------
(* pkg/security: VulnerabilityReporter.ReportMultiple *)

MaxPackages == 3    \* most packages in a batch

PackageNames == 1 .. MaxPackages

\* m with key k set to val.
MapSet(m, k, val) ==
    [x \in DOMAIN m \cup {k} |-> IF x = k THEN val ELSE m[x]]

\* GenerateReport: the scanner's error wrapped, or a report of the scan.
GenerateReport(pkg, ver, fails) ==
    IF pkg \in fails
    THEN [report |-> <<>>, err |-> "failed to scan package"]
    ELSE [report |-> [Package |-> pkg, Version |-> ver], err |-> ErrNil]

\* The loop leaving its packages unvisited once a scan has failed.
RMRest_Abort(rest, pkg, r) ==
    IF r.err # ErrNil THEN {} ELSE rest \ {pkg}

\* The packages left to visit after the pass over pkg, whose report is r:
\* an error is recorded and the loop continues.
RMRest(rest, pkg, r) == rest \ {pkg}

InitReportMultiple ==
    /\ pc = "rm_loop"
    /\ \E names \in SUBSET PackageNames :
        /\ rmPackages \in [names -> {S100, S200}]
        /\ rmScanFails \in SUBSET names
        /\ rmRemaining = names
    /\ rmReports = EmptyMap /\ rmErrors = <<>> /\ rmErr = FALSE
    /\ cmpIdle /\ compatIdle /\ fbuIdle /\ secIdle
    /\ upIdle /\ udIdle /\ sbIdle /\ wkIdle /\ nvIdle

\* One pass of the range loop over packages, in whatever order the map
\* gives them.
RMLoopBody ==
    /\ pc = "rm_loop"
    /\ \E pkg \in rmRemaining :
        \E r \in {GenerateReport(pkg, rmPackages[pkg], rmScanFails)} :
            /\ IF r.err # ErrNil
               THEN /\ rmErrors' = Append(rmErrors, pkg)
                    /\ UNCHANGED rmReports
               ELSE /\ rmReports' = MapSet(rmReports, pkg, r.report)
                    /\ UNCHANGED rmErrors
            /\ rmRemaining' = RMRest(rmRemaining, pkg, r)
    /\ UNCHANGED <<pc, rmPackages, rmScanFails, rmErr, cmpVars, compatVars,
                   fbuVars, secVars, upVars, udVars, sbVars, wkVars, nvVars>>

RMReturn ==
    /\ pc = "rm_loop"
    /\ rmRemaining = {}
    /\ rmErr' = (Len(rmErrors) > 0)
    /\ pc' = "rm_done"
    /\ UNCHANGED <<rmPackages, rmScanFails, rmRemaining, rmReports, rmErrors,
                   cmpVars, compatVars, fbuVars, secVars, upVars, udVars,
                   sbVars, wkVars, nvVars>>

NextReportMultiple == RMLoopBody \/ RMReturn

SpecReportMultiple == InitReportMultiple /\ [][NextReportMultiple]_vars

\* C21: ReportMultiple returns a report for exactly the packages whose
\* scan succeeded, in whatever order the packages were visited and however
\* many of them failed, and a non-nil error exactly when some scan failed.
C21_BatchSurvivesFailures ==
    pc = "rm_done" =>
        /\ DOMAIN rmReports = DOMAIN rmPackages \ rmScanFails
        /\ \A k \in DOMAIN rmReports :
            rmReports[k] = [Package |-> k, Version |-> rmPackages[k]]
        /\ rmErr <=> rmScanFails # {}
        /\ {rmErrors[i] : i \in DOMAIN rmErrors} = rmScanFails
        /\ Len(rmErrors) = Cardinality(rmScanFails)

\* A failed package was visited first and another package still got its
\* report.
C21_Witness ==
    /\ pc = "rm_done"
    /\ rmErr
    /\ Len(rmErrors) > 0 /\ rmErrors[1] = 1
    /\ 2 \in DOMAIN rmReports

----------------------------------------------------------------------------
(* FindBestUpgrade on exact constraints *)

\* Candidates of the constraint's major that compare strictly greater.
NewerSameMajor ==
    {c \in Candidates :
        c.Major = fbuVersion.Major /\ Compare(c, fbuVersion) > 0}

\* C23: for an exact constraint the loop picks only among candidates of the
\* constraint's major that compare strictly greater; when there is none
\* and the declared version is a key of the registry, that version is
\* returned with no error, whatever versions of a higher major are listed.
C23_ExactStaysInMajor ==
    (ReturnedAfterLoop /\ fbuType \in {<<"=">>, <<>>}) =>
        /\ bestVersion # NilVersion <=> NewerSameMajor # {}
        /\ bestVersion # NilVersion => bestVersion \in NewerSameMajor
        /\ (NewerSameMajor = {} /\ DeclaredListed) =>
            /\ retErr = ErrNil
            /\ ret \in {String(fbuVersion), currentVersion}
            /\ ret \in infoVersions
            /\ Compare(Parse(ret).v, fbuVersion) = 0

\* 1.0.1 against a registry of 1.0.1 and 2.0.0 has returned 1.0.1.
C23_Witness ==
    /\ ReturnedAfterLoop
    /\ currentVersion = S101
    /\ infoVersions = {S101, S200}
    /\ ret = S101 /\ retErr = ErrNil

----------------------------------------------------------------------------
(* The ranges documented in IsCompatible *)

\* The exclusive upper end the comments give for ^c and ~c.
DocumentedUpper(type, c) ==
    IF type = <<"~">> THEN Version(c.Major, c.Minor + 1, 0, <<>>, <<>>)
    ELSE IF c.Major > 0 THEN Version(c.Major + 1, 0, 0, <<>>, <<>>)
    ELSE IF c.Minor > 0 THEN Version(0, c.Minor + 1, 0, <<>>, <<>>)
    ELSE Version(0, 0, c.Patch + 1, <<>>, <<>>)

\* C24: under ^ and ~ a version, pre-release or not, is accepted exactly
\* when it lies in the documented range by Compare: at or above the
\* constraint version and below the next major (^1.2.3), the next minor
\* (^0.2.3, ~1.2.3) or the next patch (^0.0.3).
C24_DocumentedRanges ==
    (/\ pc = "checked" /\ compatErr = ErrNil
     /\ constraintType \in {<<"^">>, <<"~">>}
     /\ constraintVersion.Prerelease = <<>>)
    =>
        (compatible <=>
            /\ Compare(v, constraintVersion) >= 0
            /\ Compare(v, DocumentedUpper(constraintType,
                                          constraintVersion)) < 0)

----------------------------------------------------------------------------
(* Ties in the loop of FindBestUpgrade *)

\* Keys that parse to an eligible candidate no eligible candidate exceeds:
\* a function of the constraint and the version list alone.
BestKeys ==
    {k \in infoVersions :
        /\ Parse(k).err = ErrNil
        /\ Eligible(fbuType, Parse(k).v, fbuVersion)
        /\ \A c \in Candidates :
            Eligible(fbuType, c, fbuVersion) => Compare(c, Parse(k).v) <= 0}

\* The loop changes its best only for a candidate that compares strictly
\* greater.
OnlyGreaterReplaces ==
    (bestVersionStr' # bestVersionStr /\ bestVersion # NilVersion)
        => Compare(bestVersion', bestVersion) > 0

\* C25: the current best is replaced only by a strictly greater candidate,
\* so the first of several equal candidates stays; the version selected is
\* one of the greatest eligible keys, which all compare equal, so that two
\* iteration orders can differ in the spelling returned and in nothing
\* else.
C25_TiesKeepFirst ==
    /\ [](ReturnedUpgrade =>
            /\ bestVersionStr \in BestKeys
            /\ ret = fbuType \o bestVersionStr
            /\ \A k \in BestKeys : Compare(Parse(k).v, bestVersion) = 0)
    /\ [][OnlyGreaterReplaces]_vars

\* 1.0.1 and v1.0.1 were both listed for ^1.0.0 and the spelling v1.0.1
\* was returned.
C25_Witness ==
    /\ ReturnedUpgrade
    /\ currentVersion = <<"^">> \o S100
    /\ {S101, <<"v">> \o S101} \subseteq BestKeys
    /\ ret = <<"^", "v">> \o S101

----------------------------------------------------------------------------
(* cmd: the loop of upgradePackages, for one package of packagesToUpgrade *)

\* The version simulate mode makes up: the next minor of the declared one.
SimulatedUpgrade(c) ==
    c.type \o String(Version(c.v.Major, c.v.Minor + 1, 0, <<>>, <<>>))

\* The test that skips a package whose version did not change.
Unchanged(new, old) == new = old

InitUpgradePackages ==
    /\ pc = "up_start"
    /\ upSimulate \in BOOLEAN
    /\ upNewVersionStr = <<>>
    /\ upgrades = {}
    /\ currentVersion \in DeclaredConstraints
    /\ infoVersions \in
        {ks \in SUBSET RegistryKeys : Cardinality(ks) <= MaxVersions}
    /\ infoErr \in BOOLEAN
    /\ fbuType = <<>> /\ fbuVersion = NilVersion
    /\ remaining = {}
    /\ bestVersion = NilVersion /\ bestVersionStr = <<>>
    /\ ret = <<>> /\ retErr = ErrNil
    /\ cmpIdle /\ compatIdle /\ secIdle
    /\ rmIdle /\ udIdle /\ sbIdle /\ wkIdle /\ nvIdle

\* In simulate mode the new version is made up from the parsed constraint;
\* otherwise FindBestUpgrade is called.
UPBegin ==
    /\ pc = "up_start"
    /\ IF upSimulate
       THEN \E c \in {ParseConstraint(currentVersion)} :
                IF c.err # ErrNil
                THEN pc' = "up_done" /\ UNCHANGED upNewVersionStr
                ELSE /\ upNewVersionStr' = SimulatedUpgrade(c)
                     /\ pc' = "up_check"
       ELSE pc' = "fbu_parse" /\ UNCHANGED upNewVersionStr
    /\ UNCHANGED <<upSimulate, upgrades, cmpVars, compatVars, fbuVars,
                   secVars, rmVars, udVars, sbVars, wkVars, nvVars>>

\* FindBestUpgrade has returned: an error skips the package.
UPAfterFind ==
    /\ pc = "fbu_done"
    /\ ~upSimulate
    /\ IF retErr # ErrNil
       THEN pc' = "up_done" /\ UNCHANGED upNewVersionStr
       ELSE upNewVersionStr' = ret /\ pc' = "up_check"
    /\ UNCHANGED <<upSimulate, upgrades, cmpVars, compatVars, fbuVars,
                   secVars, rmVars, udVars, sbVars, wkVars, nvVars>>

\* The package is skipped when the version did not change or the AI client
\* cannot be made, and entered in upgrades otherwise.
UPRecord ==
    /\ pc = "up_check"
    /\ \/ /\ Unchanged(upNewVersionStr, currentVersion)
          /\ UNCHANGED upgrades
       \/ /\ ~Unchanged(upNewVersionStr, currentVersion)
          /\ UNCHANGED upgrades
       \/ /\ ~Unchanged(upNewVersionStr, currentVersion)
          /\ upgrades' = {[OldVersion |-> currentVersion,
                           NewVersion |-> upNewVersionStr]}
    /\ pc' = "up_done"
    /\ UNCHANGED <<upSimulate, upNewVersionStr, cmpVars, compatVars, fbuVars,
                   secVars, rmVars, udVars, sbVars, wkVars, nvVars>>

NextUpgradePackages ==
    \/ UPBegin
    \/ FBUParseConstraint
    \/ FBUGetPackageInfo
    \/ FBULoopBody
    \/ FBUFinish
    \/ UPAfterFind
    \/ UPRecord

SpecUpgradePackages == InitUpgradePackages /\ [][NextUpgradePackages]_vars

\* FindBestUpgrade returned the declared version for want of a newer one.
AlreadyAtLatest ==
    ~upSimulate /\ retErr = ErrNil /\ bestVersion = NilVersion
    /\ ParseConstraint(currentVersion).err = ErrNil /\ ~infoErr

\* C26: a package is entered in upgrades only when its version changed: a
\* package already at latest is never entered, however its exact
\* constraint is spelled, and the new version of every entry compares
\* different from the old one.
C26_OnlyChangedRecorded ==
    pc = "up_done" =>
        /\ AlreadyAtLatest => upgrades = {}
        /\ \A u \in upgrades :
            Compare(Parse(u.NewVersion).v, Parse(u.OldVersion).v) # 0

----------------------------------------------------------------------------
(* semver: NormalizeVersion on operator-prefixed strings *)

Pads == {<<>>, <<" ">>}

\* Bare versions: well-formed spellings and malformed text, none starting
\* with an operator character or a space.
BareStrs == SpelledVersions \cup BadVersionStrs

\* An operator token, a run of operator characters that is no token, or
\* nothing, before a bare version.
NormalizeParts ==
    [op : OpTokens \cup OddOpRuns \cup {<<>>}, s : BareStrs]

InitNormalize ==
    /\ pc = "nv_start"
    /\ nvParts \in NormalizeParts
    /\ \E lead \in Pads, gap \in Pads, trail \in Pads :
        nvInput = lead \o nvParts.op \o gap \o nvParts.s \o trail
    /\ nvOnce = <<>> /\ nvTwice = <<>>
    /\ cmpIdle /\ compatIdle /\ fbuIdle /\ secIdle
    /\ rmIdle /\ upIdle /\ udIdle /\ sbIdle /\ wkIdle

DoNormalize ==
    /\ pc = "nv_start"
    /\ nvOnce' = NormalizeVersion(nvInput)
    /\ pc' = "nv_once"
    /\ UNCHANGED <<nvParts, nvInput, nvTwice, cmpVars, compatVars, fbuVars,
                   secVars, rmVars, upVars, udVars, sbVars, wkVars>>

DoNormalizeAgain ==
    /\ pc = "nv_once"
    /\ nvTwice' = NormalizeVersion(nvOnce)
    /\ pc' = "nv_twice"
    /\ UNCHANGED <<nvParts, nvInput, nvOnce, cmpVars, compatVars, fbuVars,
                   secVars, rmVars, upVars, udVars, sbVars, wkVars>>

NextNormalize == DoNormalize \/ DoNormalizeAgain

SpecNormalize == InitNormalize /\ [][NextNormalize]_vars

Clean(s) == s = <<>> \/ s[1] \notin OpChars \cup {" "}

\* C27 as stated: for every input the result starts with no operator
\* character and no space, a second application changes nothing, and
\* the bare version is what is left of operator + bare version.
C27_AlwaysClean ==
    pc = "nv_twice" =>
        /\ Clean(nvOnce)
        /\ nvTwice = nvOnce
        /\ nvParts.op \in OpTokens \cup {<<>>} => nvOnce = nvParts.s

\* C27, amended: when the bare version is preceded by one of the seven
\* operator tokens or by nothing, with spaces around either, the result
\* is the bare version, it starts with no operator character and no
\* space, and a second application changes nothing.  After any other run
\* of operator characters the result may still start with an operator.
C27_CleanAfterOneToken ==
    (pc = "nv_twice" /\ nvParts.op \in OpTokens \cup {<<>>}) =>
        /\ nvOnce = nvParts.s
        /\ Clean(nvOnce)
        /\ nvTwice = nvOnce

C27_Witness ==
    /\ pc = "nv_twice"
    /\ nvParts = [op |-> <<">", "=">>, s |-> S100]
    /\ nvInput = <<" ", ">", "=", " ">> \o S100
    /\ nvOnce = S100 /\ nvTwice = S100

----------------------------------------------------------------------------
(* pkg/security: one range in both wire shapes, a CPE match record for
   isVersionInVulnerableRange and an advisory string for
   isVersionVulnerable *)

\* Bounds that parse: canonical, minor and patch left out, v-prefixed,
\* with a pre-release.
ShapeBounds ==
    {S100, <<"1", ".", "1", ".", "0">>, <<"2">>, <<"v">> \o S101,
     S101 \o <<"-", "a">>}

\* The same range written both ways: the record, and the one-entry list.
BothShapes ==
    {[m |-> [NoBounds EXCEPT !.VersionStartIncluding = a,
                             !.VersionEndExcluding = b],
      r |-> <<<<">", "=">> \o a \o <<" ", "<">> \o b>>] :
        a \in ShapeBounds, b \in ShapeBounds}
    \cup {[m |-> [NoBounds EXCEPT !.VersionEndExcluding = b],
           r |-> <<<<"<">> \o b>>] : b \in ShapeBounds}
    \cup {[m |-> [NoBounds EXCEPT !.VersionEndIncluding = b],
           r |-> <<<<"<", "=">> \o b>>] : b \in ShapeBounds}
    \cup {[m |-> [NoBounds EXCEPT !.VersionStartIncluding = a],
           r |-> <<<<">", "=">> \o a>>] : a \in ShapeBounds}
    \cup {[m |-> [NoBounds EXCEPT !.VersionStartExcluding = a],
           r |-> <<<<">">> \o a>>] : a \in ShapeBounds}

InitShapes ==
    /\ pc = "shape"
    /\ cpeVersion \in RangeVersions
    /\ vulnVersion = cpeVersion
    /\ \E sh \in BothShapes : cpeMatch = sh.m /\ vulnerableRanges = sh.r
    /\ inRange = FALSE /\ vulnerable = FALSE
    /\ cmpIdle /\ compatIdle /\ fbuIdle
    /\ parseIdle /\ fvIdle
    /\ appIdle

ShapeCPE ==
    /\ pc = "shape"
    /\ inRange' = isVersionInVulnerableRange(cpeVersion, cpeMatch)
    /\ pc' = "shape_cpe"
    /\ UNCHANGED <<cpeVersion, cpeMatch, cmpVars, compatVars, fbuVars,
                   vulnVars, parseVars, fvVars, appVars>>

ShapeAdvisory ==
    /\ pc = "shape_cpe"
    /\ vulnerable' = isVersionVulnerable(vulnVersion, vulnerableRanges)
    /\ pc' = "shape_done"
    /\ UNCHANGED <<vulnVersion, vulnerableRanges, cmpVars, compatVars,
                   fbuVars, rangeVars, parseVars, fvVars, appVars>>

NextShapes == ShapeCPE \/ ShapeAdvisory

SpecShapes == InitShapes /\ [][NextShapes]_vars

\* C28: for bounds that parse, a CPE match record and the advisory string
\* with the same comparators give the same answer for every version:
\* startIncluding a with endExcluding b against ">=a <b", and each single
\* bound against its single comparator.
C28_ShapesAgree ==
    pc = "shape_done" => (inRange <=> vulnerable)

\* A version between the bounds is reported by both shapes, the upper
\* bound being written without minor and patch.
C28_Witness ==
    /\ pc = "shape_done"
    /\ cpeMatch = [NoBounds EXCEPT !.VersionStartIncluding = S100,
                                   !.VersionEndExcluding = <<"2">>]
    /\ vulnerableRanges = <<<<">", "=">> \o S100 \o <<" ", "<", "2">>>>
    /\ cpeVersion = Version(1, 1, 0, <<>>, <<>>)
    /\ inRange /\ vulnerable

\* The version equal to an excluded end is reported by neither shape.
C28_WitnessEnd ==
    /\ pc = "shape_done"
    /\ vulnerableRanges = <<<<"<">> \o S100>>
    /\ cpeVersion = Version(1, 0, 0, <<>>, <<>>)
    /\ ~inRange /\ ~vulnerable

----------------------------------------------------------------------------
(* parser: PackageJSON.UpdateDependency *)

\* Dependency maps: some of the names, each with a declared version.  A
\* nil map reads as the empty one.
DependencyMaps ==
    UNION {[names -> {S100, S200}] : names \in SUBSET PackageNames}

\* UpdateDependency looking at DevDependencies before Dependencies.
UpdateDependency_DevFirst(deps, dev, name, ver) ==
    IF name \in DOMAIN dev
    THEN [deps |-> deps, dev |-> [dev EXCEPT ![name] = ver], ok |-> TRUE]
    ELSE IF name \in DOMAIN deps
    THEN [deps |-> [deps EXCEPT ![name] = ver], dev |-> dev, ok |-> TRUE]
    ELSE [deps |-> deps, dev |-> dev, ok |-> FALSE]

\* The maps and the return value after p.UpdateDependency(name, ver).
UpdateDependency(deps, dev, name, ver) ==
    IF name \in DOMAIN deps
    THEN [deps |-> [deps EXCEPT ![name] = ver], dev |-> dev, ok |-> TRUE]
    ELSE IF name \in DOMAIN dev
    THEN [deps |-> deps, dev |-> [dev EXCEPT ![name] = ver], ok |-> TRUE]
    ELSE [deps |-> deps, dev |-> dev, ok |-> FALSE]

InitUpdateDependency ==
    /\ pc = "ud_start"
    /\ udDeps \in DependencyMaps
    /\ udDevDeps \in DependencyMaps
    /\ udBefore = [deps |-> udDeps, dev |-> udDevDeps]
    /\ udName \in PackageNames
    /\ udVersion \in {S101, S200}
    /\ udResult = FALSE
    /\ cmpIdle /\ compatIdle /\ fbuIdle /\ secIdle
    /\ rmIdle /\ upIdle /\ sbIdle /\ wkIdle /\ nvIdle

DoUpdateDependency ==
    /\ pc = "ud_start"
    /\ \E r \in {UpdateDependency(udDeps, udDevDeps, udName, udVersion)} :
        /\ udDeps' = r.deps
        /\ udDevDeps' = r.dev
        /\ udResult' = r.ok
    /\ pc' = "ud_done"
    /\ UNCHANGED <<udBefore, udName, udVersion, cmpVars, compatVars,
                   fbuVars, secVars, rmVars, upVars, sbVars, wkVars, nvVars>>

NextUpdateDependency == DoUpdateDependency

SpecUpdateDependency == InitUpdateDependency /\ [][NextUpdateDependency]_vars

\* m is b with the version of name set to ver and nothing else changed.
OnlySet(m, b, name, ver) ==
    /\ DOMAIN m = DOMAIN b
    /\ m[name] = ver
    /\ \A k \in DOMAIN b \ {name} : m[k] = b[k]

\* C29: UpdateDependency returns true exactly when the name is a key of
\* Dependencies or of DevDependencies; it sets the version in
\* Dependencies when the name is a key there and in DevDependencies only
\* when it is not; no key is added or removed, no other package's
\* version changes, and a false return leaves both maps as they were.
C29_UpdatesExistingOnly ==
    pc = "ud_done" =>
        /\ udResult <=>
            udName \in DOMAIN udBefore.deps \cup DOMAIN udBefore.dev
        /\ udName \in DOMAIN udBefore.deps =>
            /\ OnlySet(udDeps, udBefore.deps, udName, udVersion)
            /\ udDevDeps = udBefore.dev
        /\ (udName \notin DOMAIN udBefore.deps
                /\ udName \in DOMAIN udBefore.dev) =>
            /\ OnlySet(udDevDeps, udBefore.dev, udName, udVersion)
            /\ udDeps = udBefore.deps
        /\ ~udResult => udDeps = udBefore.deps /\ udDevDeps = udBefore.dev

\* A package declared in both maps was updated in Dependencies alone.
C29_Witness ==
    /\ pc = "ud_done"
    /\ udName = 1
    /\ udBefore.deps = (1 :> S100 @@ 2 :> S200)
    /\ udBefore.dev = (1 :> S100)
    /\ udVersion = S101
    /\ udResult
    /\ udDeps = (1 :> S101 @@ 2 :> S200)
    /\ udDevDeps = (1 :> S100)

----------------------------------------------------------------------------
(* pkg/security: VulnerabilityReport.SortBySeverity *)

MaxVulns == 3       \* most vulnerabilities in a report

LowerChars ==
    <<"a", "b", "c", "d", "e", "f", "g", "h", "i", "j", "k", "l", "m",
      "n", "o", "p", "q", "r", "s", "t", "u", "v", "w", "x", "y", "z">>

UpperChars ==
    <<"A", "B", "C", "D", "E", "F", "G", "H", "I", "J", "K", "L", "M",
      "N", "O", "P", "Q", "R", "S", "T", "U", "V", "W", "X", "Y", "Z">>

\* strings.ToUpper on the ASCII strings severities are.
ToUpper(s) ==
    [i \in 1 .. Len(s) |->
        IF \E k \in 1 .. 26 : LowerChars[k] = s[i]
        THEN UpperChars[CHOOSE k \in 1 .. 26 : LowerChars[k] = s[i]]
        ELSE s[i]]

\* SeverityWeight[s]: the weight of a key of the map, 0 for any other
\* string.
SeverityWeight(s) ==
    CASE s = <<"C", "R", "I", "T", "I", "C", "A", "L">> -> 4
      [] s = <<"H", "I", "G", "H">> -> 3
      [] s = <<"M", "E", "D", "I", "U", "M">> -> 2
      [] s = <<"L", "O", "W">> -> 1
      [] OTHER -> 0

WeightOf(vuln) == SeverityWeight(ToUpper(vuln.Severity))

\* The comparison ordering equal weights by older publication first.
Less_OlderFirst(a, b) ==
    IF WeightOf(a) # WeightOf(b)
    THEN WeightOf(a) > WeightOf(b)
    ELSE a.Published < b.Published

\* The less function handed to sort.SliceStable.
Less(a, b) ==
    IF WeightOf(a) # WeightOf(b)
    THEN WeightOf(a) > WeightOf(b)
    ELSE a.Published > b.Published

\* x put into the sorted sequence after every element it is not less
\* than, which keeps equal elements in their order.
RECURSIVE InsertStable(_, _)
InsertStable(sorted, x) ==
    IF sorted = <<>> THEN <<x>>
    ELSE IF Less(x, Head(sorted)) THEN <<x>> \o sorted
    ELSE <<Head(sorted)>> \o InsertStable(Tail(sorted), x)

\* sort.SliceStable with Less: the one stable arrangement of vulns.
RECURSIVE SortStable(_)
SortStable(vulns) ==
    IF vulns = <<>> THEN <<>>
    ELSE InsertStable(SortStable(Take(vulns, Len(vulns) - 1)),
                      vulns[Len(vulns)])

\* Severities as feeds spell them: the keys of the map in either case,
\* and a word that is no key.
Severities ==
    {<<"C", "R", "I", "T", "I", "C", "A", "L">>, <<"h", "i", "g", "h">>,
     <<"H", "I", "G", "H">>, <<"M", "e", "d", "i", "u", "m">>,
     <<"L", "O", "W">>, <<"i", "n", "f", "o">>}

\* Publication times, as days.
PublishedDays == {1, 2}

Vulnerabilities == [Severity : Severities, Published : PublishedDays]

InitSortBySeverity ==
    /\ pc = "sb_start"
    /\ sbVulns \in UNION {[1 .. n -> Vulnerabilities] : n \in 0 .. MaxVulns}
    /\ sbBefore = sbVulns
    /\ cmpIdle /\ compatIdle /\ fbuIdle /\ secIdle
    /\ rmIdle /\ upIdle /\ udIdle /\ wkIdle /\ nvIdle

DoSortBySeverity ==
    /\ pc = "sb_start"
    /\ sbVulns' = SortStable(sbVulns)
    /\ pc' = "sb_done"
    /\ UNCHANGED <<sbBefore, cmpVars, compatVars, fbuVars, secVars, rmVars,
                   upVars, udVars, wkVars, nvVars>>

NextSortBySeverity == DoSortBySeverity

SpecSortBySeverity == InitSortBySeverity /\ [][NextSortBySeverity]_vars

Occurrences(seq, x) == Cardinality({i \in 1 .. Len(seq) : seq[i] = x})

\* The weight the claim gives a severity, whatever its case.
ClaimedWeight(sev) ==
    IF sev \in {<<"C", "R", "I", "T", "I", "C", "A", "L">>} THEN 4
    ELSE IF sev \in {<<"h", "i", "g", "h">>, <<"H", "I", "G", "H">>} THEN 3
    ELSE IF sev \in {<<"M", "e", "d", "i", "u", "m">>} THEN 2
    ELSE IF sev \in {<<"L", "O", "W">>} THEN 1
    ELSE 0

\* C30: after SortBySeverity the vulnerabilities are the same ones, each
\* as often as before, in descending order of weight (CRITICAL 4, HIGH 3,
\* MEDIUM 2, LOW 1, anything else 0, in any case), the newer publication
\* first among equal weights.
C30_SortedBySeverity ==
    pc = "sb_done" =>
        /\ Len(sbVulns) = Len(sbBefore)
        /\ \A x \in Vulnerabilities :
            Occurrences(sbVulns, x) = Occurrences(sbBefore, x)
        /\ \A i, j \in 1 .. Len(sbVulns) :
            i < j =>
                /\ ClaimedWeight(sbVulns[i].Severity)
                    >= ClaimedWeight(sbVulns[j].Severity)
                /\ ClaimedWeight(sbVulns[i].Severity)
                        = ClaimedWeight(sbVulns[j].Severity)
                    => sbVulns[i].Published >= sbVulns[j].Published

\* A lower-case high published later moved ahead of an upper-case HIGH,
\* both behind the CRITICAL that came last.
C30_Witness ==
    /\ pc = "sb_done"
    /\ sbBefore =
        <<[Severity |-> <<"H", "I", "G", "H">>, Published |-> 1],
          [Severity |-> <<"h", "i", "g", "h">>, Published |-> 2],
          [Severity |-> <<"C", "R", "I", "T", "I", "C", "A", "L">>,
           Published |-> 1]>>
    /\ sbVulns =
        <<[Severity |-> <<"C", "R", "I", "T", "I", "C", "A", "L">>,
           Published |-> 1],
          [Severity |-> <<"h", "i", "g", "h">>, Published |-> 2],
          [Severity |-> <<"H", "I", "G", "H">>, Published |-> 1]>>

----------------------------------------------------------------------------
(* Calls of IsCompatible, isVersionInVulnerableRange, isVersionVulnerable
   and the selection loop of FindBestUpgrade made by several workers at
   once, each call advancing one statement at a time *)

MaxWorkers == 2     \* workers calling at once

Workers == 1 .. MaxWorkers

\* The locals of a call: what Parse and ParseConstraint returned, and the
\* loop variables of the selection.
NoLocals ==
    [p |-> [v |-> NilVersion, err |-> ErrNil],
     c |-> [type |-> <<>>, v |-> NilVersion, err |-> ErrNil],
     remaining |-> {}, best |-> NilVersion, bestStr |-> <<>>]

NoResult == [ok |-> FALSE, err |-> ErrNil, str |-> <<>>]

\* The locals of worker w's call seen as variables of the package, every
\* call using those of the first worker.
LocalOf_Shared(locals, w) == locals[1]

\* The locals worker w's call reads: the ones of its own stack frame.
LocalOf(locals, w) == locals[w]

WorkerVersions ==
    {Version(1, 0, 1, <<>>, <<>>), Version(2, 0, 0, <<>>, <<>>)}

Call(fn, str, con, ver, m, ranges, keys) ==
    [fn |-> fn, str |-> str, con |-> con, ver |-> ver, cpeMatch |-> m,
     ranges |-> ranges, keys |-> keys]

\* The calls a worker can be given: IsCompatible with strings that parse
\* and that do not, both range tests, and a selection with two spellings
\* of the best candidate.
Calls ==
    {Call("IsCompatible", str, con, NilVersion, NoBounds, <<>>, {}) :
        str \in {S101, <<"x">>},
        con \in {<<"^">> \o S100, <<"^", "x">>}}
    \cup {Call("isVersionInVulnerableRange", <<>>, <<>>, ver,
               [NoBounds EXCEPT !.VersionStartIncluding = S100,
                                !.VersionEndExcluding = S200],
               <<>>, {}) : ver \in WorkerVersions}
    \cup {Call("isVersionVulnerable", <<>>, <<>>, ver, NoBounds,
               <<<<"<">> \o S100,
                 <<">", "=">> \o S100 \o <<" ", "<">> \o S200>>, {}) :
            ver \in WorkerVersions}
    \cup {Call("select", <<>>, op \o S100, NilVersion, NoBounds, <<>>,
               {S101, <<"v">> \o S101, <<"1", ".", "1", ".", "0">>}) :
            op \in {<<"^">>, <<"~">>}}

\* One pass of the selection loop over candidate key k, parsed as p.
SelectStep(type, ver, k, p, best, bestStr) ==
    IF p.err = ErrNil /\ Replaces(Eligible(type, p.v, ver), p.v, best)
    THEN [best |-> p.v, bestStr |-> k]
    ELSE [best |-> best, bestStr |-> bestStr]

InitWorkers ==
    /\ pc = "workers"
    /\ wkCall \in [Workers -> Calls]
    /\ wkPc = [w \in Workers |-> "call"]
    /\ wkLocal = [w \in Workers |-> NoLocals]
    /\ wkResult = [w \in Workers |-> NoResult]
    /\ cmpIdle /\ compatIdle /\ fbuIdle /\ secIdle
    /\ rmIdle /\ upIdle /\ udIdle /\ sbIdle /\ nvIdle

\* What every step of a worker leaves alone.
WkFrame ==
    UNCHANGED <<pc, wkCall, cmpVars, compatVars, fbuVars, secVars, rmVars,
                upVars, udVars, sbVars, nvVars>>

\* IsCompatible: v, err := Parse(version).
WkParseVersion(w) ==
    /\ wkPc[w] = "call" /\ wkCall[w].fn = "IsCompatible"
    /\ \E p \in {Parse(wkCall[w].str)} :
        /\ wkLocal' = [wkLocal EXCEPT ![w].p = p]
        /\ IF p.err # ErrNil
           THEN /\ wkResult' = [wkResult EXCEPT
                        ![w] = [ok |-> FALSE, err |-> "invalid version",
                                str |-> <<>>]]
                /\ wkPc' = [wkPc EXCEPT ![w] = "done"]
           ELSE /\ wkPc' = [wkPc EXCEPT ![w] = "version_parsed"]
                /\ UNCHANGED wkResult
    /\ WkFrame

\* IsCompatible: ParseConstraint(constraint) and the switch.
WkCheckConstraint(w) ==
    /\ wkPc[w] = "version_parsed"
    /\ \E c \in {ParseConstraint(wkCall[w].con)} :
        /\ wkLocal' = [wkLocal EXCEPT ![w].c = c]
        /\ \E r \in {IsCompatibleParsed(LocalOf(wkLocal, w).p, c)} :
            wkResult' = [wkResult EXCEPT
                ![w] = [ok |-> r.ok, err |-> r.err, str |-> <<>>]]
    /\ wkPc' = [wkPc EXCEPT ![w] = "done"]
    /\ WkFrame

WkInVulnerableRange(w) ==
    /\ wkPc[w] = "call" /\ wkCall[w].fn = "isVersionInVulnerableRange"
    /\ wkResult' = [wkResult EXCEPT
            ![w] = [ok |-> isVersionInVulnerableRange(wkCall[w].ver,
                                                        wkCall[w].cpeMatch),
                    err |-> ErrNil, str |-> <<>>]]
    /\ wkPc' = [wkPc EXCEPT ![w] = "done"]
    /\ UNCHANGED wkLocal
    /\ WkFrame

WkIsVersionVulnerable(w) ==
    /\ wkPc[w] = "call" /\ wkCall[w].fn = "isVersionVulnerable"
    /\ wkResult' = [wkResult EXCEPT
            ![w] = [ok |-> isVersionVulnerable(wkCall[w].ver,
                                                 wkCall[w].ranges),
                    err |-> ErrNil, str |-> <<>>]]
    /\ wkPc' = [wkPc EXCEPT ![w] = "done"]
    /\ UNCHANGED wkLocal
    /\ WkFrame

\* FindBestUpgrade up to its loop: the constraint is parsed, the
\* registry's versions are at hand, bestVersion is nil.
WkSelectBegin(w) ==
    /\ wkPc[w] = "call" /\ wkCall[w].fn = "select"
    /\ wkLocal' = [wkLocal EXCEPT
            ![w].c = ParseConstraint(wkCall[w].con),
            ![w].remaining = wkCall[w].keys]
    /\ wkPc' = [wkPc EXCEPT ![w] = "loop"]
    /\ UNCHANGED wkResult
    /\ WkFrame

\* One pass of the loop, over whichever key the map yields next.
WkSelectStep(w) ==
    /\ wkPc[w] = "loop"
    /\ \E l \in {LocalOf(wkLocal, w)} :
        \E k \in wkLocal[w].remaining :
            \E n \in {SelectStep(l.c.type, l.c.v, k, Parse(k),
                                 l.best, l.bestStr)} :
                wkLocal' = [wkLocal EXCEPT
                    ![w].remaining = wkLocal[w].remaining \ {k},
                    ![w].best = n.best,
                    ![w].bestStr = n.bestStr]
    /\ UNCHANGED <<wkPc, wkResult>>
    /\ WkFrame

\* The loop has ended: the key it selected is the result.
WkSelectEnd(w) ==
    /\ wkPc[w] = "loop"
    /\ wkLocal[w].remaining = {}
    /\ \E l \in {LocalOf(wkLocal, w)} :
        wkResult' = [wkResult EXCEPT
            ![w] = [ok |-> l.best # NilVersion, err |-> ErrNil,
                    str |-> l.bestStr]]
    /\ wkPc' = [wkPc EXCEPT ![w] = "done"]
    /\ UNCHANGED wkLocal
    /\ WkFrame

NextWorkers ==
    \E w \in Workers :
        \/ WkParseVersion(w)
        \/ WkCheckConstraint(w)
        \/ WkInVulnerableRange(w)
        \/ WkIsVersionVulnerable(w)
        \/ WkSelectBegin(w)
        \/ WkSelectStep(w)
        \/ WkSelectEnd(w)

SpecWorkers == InitWorkers /\ [][NextWorkers]_vars

\* The keys the selection loop can end with when it runs alone, over
\* every order in which the map can yield the keys of rem.
RECURSIVE SelectAlone(_, _, _, _)
SelectAlone(type, ver, rem, b) ==
    IF rem = {}
    THEN {[ok |-> b.best # NilVersion, err |-> ErrNil, str |-> b.bestStr]}
    ELSE UNION {SelectAlone(type, ver, rem \ {k},
                    SelectStep(type, ver, k, Parse(k), b.best, b.bestStr)) :
                k \in rem}

FlatResult(r) == [ok |-> r.ok, err |-> r.err, str |-> <<>>]

\* The results call can return when no other call is running.
AloneResults(call) ==
    IF call.fn = "IsCompatible"
    THEN {FlatResult(IsCompatible(call.str, call.con))}
    ELSE IF call.fn = "isVersionInVulnerableRange"
    THEN {[ok |-> isVersionInVulnerableRange(call.ver, call.cpeMatch),
           err |-> ErrNil, str |-> <<>>]}
    ELSE IF call.fn = "isVersionVulnerable"
    THEN {[ok |-> isVersionVulnerable(call.ver, call.ranges),
           err |-> ErrNil, str |-> <<>>]}
    ELSE SelectAlone(ParseConstraint(call.con).type,
                     ParseConstraint(call.con).v, call.keys,
                     [best |-> NilVersion, bestStr |-> <<>>])

\* C22: a call made while other workers' calls are under way, in any
\* interleaving of their statements, returns a result the same call
\* returns when it runs alone.
C22_CallsIndependent ==
    \A w \in Workers :
        wkPc[w] = "done" => wkResult[w] \in AloneResults(wkCall[w])

\* One worker's selection has returned while another's, for a different
\* constraint over the same keys, is part-way through its loop with a
\* best candidate of its own.
C22_Witness ==
    /\ wkPc[1] = "done"
    /\ wkCall[1].con = <<"~">> \o S100
    /\ wkResult[1].str = <<"v">> \o S101
    /\ wkPc[2] = "loop"
    /\ wkCall[2].con = <<"^">> \o S100
    /\ wkLocal[2].remaining # {}
    /\ wkLocal[2].bestStr = <<"1", ".", "1", ".", "0">>

====
